---- MODULE Spec2Model ----
(***************************************************************************)
(* TGForwardBot: a relay between external contacts and one operator,       *)
(* with a persistent blocklist (src/TGForwardBot).                         *)
(*                                                                         *)
(* Texts and names are sequences of tokens.  A token is one character,     *)
(* except that the fixed literals the code searches for are one token      *)
(* each: "L" is the id label, "N" the name label, "U" the handle label and  *)
(* "=" the separator line; a token that starts with "#" is a fixed text of *)
(* the bot.                                                                *)
(***************************************************************************)
EXTENDS Integers, Sequences, FiniteSets, TLC

VARIABLES
    blocklist_file,        \* contents of blocklist.json
    blocklist_data_cache,  \* TGForwardBotConfig._blocklist_data_cache
    blocklist_cache,       \* TGForwardBotConfig._blocklist_cache
    last_op,               \* the blocklist call made last, with its result
    write_failures,        \* how many writes of the file have failed
    forward_mode,          \* config.forward_mode: "private" or "group"
    user_topic_map,        \* TGGroupBot._user_topic_map
    topic_user_map,        \* TGGroupBot._topic_user_map
    topic_map_file,        \* contents of group_topics.json
    forum_topics,          \* the threads created in the group so far
    ev,                    \* the update handled last, with its outbound calls
    pending,               \* the handlers suspended at an await, with what they hold
    returned,              \* the pairs <<contact, thread>> _ensure_topic has returned
    timers,                \* the delete_after_delay tasks created so far
    view,                  \* the list view rendered last, with what it was given
    plugin_config,         \* TGForwardBotConfig._config, as get_plugin_config returns it
    bot_instance,          \* bot.bot_instance: the direct-mode bot
    group_bot_instance,    \* group.group_bot_instance: the topic-mode bot
    startup                \* how far plugin initialisation has got

cfg_vars == <<blocklist_file, blocklist_data_cache, blocklist_cache>>
topic_vars == <<user_topic_map, topic_user_map, topic_map_file, forum_topics>>

run_vars == <<pending, returned, timers>>
life_vars == <<plugin_config, bot_instance, group_bot_instance, startup>>

vars == <<blocklist_file, blocklist_data_cache, blocklist_cache, last_op,
          write_failures, forward_mode, user_topic_map, topic_user_map,
          topic_map_file, forum_topics, ev, pending, returned, timers, view,
          plugin_config, bot_instance, group_bot_instance, startup>>

(***************************************************************************)
(* Bounds of the model.                                                    *)
(***************************************************************************)
MaxUser == 2
MaxContact == 1
MaxCalls == 4
MaxWriteFailures == 1
MaxListLen == 17
MaxPageArg == 4
MaxPending == 2
MaxTopics == 3
MaxShown == 9
MaxItems == 2
MaxKinds == 2
MaxAcks == 2

UserIds == 1..MaxUser

(***************************************************************************)
(* Optional values: None, or Some(x).                                      *)
(***************************************************************************)
None == {}
Some(x) == {x}
Val(o) == CHOOSE x \in o : TRUE

\* F of the value of x, with x evaluated once
With(x, F(_)) == CHOOSE r \in {F(y) : y \in {x}} : TRUE

(***************************************************************************)
(* Names.  str.strip() removes the white space at both ends.               *)
(***************************************************************************)
IsSpace(ch) == ch \in {" ", "\n"}

RECURSIVE LStrip(_)
LStrip(s) ==
    IF s # <<>> /\ IsSpace(Head(s)) THEN LStrip(Tail(s)) ELSE s

RECURSIVE RStrip(_)
RStrip(s) ==
    IF s # <<>> /\ IsSpace(s[Len(s)]) THEN RStrip(SubSeq(s, 1, Len(s) - 1)) ELSE s

Strip(s) == RStrip(LStrip(s))

Names == {<<>>, <<"a">>, <<" ", "a">>}

(***************************************************************************)
(* TGForwardBotConfig: the blocklist and its two caches.                   *)
(* A configuration state s is [file, data, ids]; the operators return the  *)
(* state after the call, with the call's result where it has one.          *)
(***************************************************************************)
Entry(user_id, name) == [user_id |-> user_id, name |-> name]

IdsOf(data) == {data[i].user_id : i \in 1..Len(data)}

HasId(data, user_id) == \E i \in 1..Len(data) : data[i].user_id = user_id

FirstIndex(data, user_id) ==
    CHOOSE i \in 1..Len(data) :
        /\ data[i].user_id = user_id
        /\ \A j \in 1..(i - 1) : data[j].user_id # user_id

\* json.load of the file: an unreadable file raises, and the cache becomes []
\* A JSON document.  An object is a record of its fields; any other value is
\* a record with the field json that names its kind: a list with its items,
\* a number, a string or null, and "garbage" for a text json.load rejects
\* (an empty or a cut-off file).
JsonKind(v) == IF "json" \in DOMAIN v THEN v.json ELSE "object"

\* json.dump of a list
JsonList(items) == [json |-> "list", items |-> items]

\* a list whose first item is a list is replaced by that item
Unwrapped(data) ==
    IF JsonKind(data) = "list" /\ data.items # <<>> /\ JsonKind(data.items[1]) = "list"
    THEN data.items[1]
    ELSE data

\* "user_id" in item raises on a number and on null; the strings and the
\* lists of the model do not hold the word
InRaises(item) == JsonKind(item) \in {"number", "null"}

HasUserId(item) == JsonKind(item) = "object" /\ "user_id" \in DOMAIN item

\* the body of the try statement of _load_blocklist_data: json.load, then
\* the list comprehension; whatever is raised leaves the empty list
LoadJson(doc) ==
    IF JsonKind(doc) = "garbage" THEN <<>>
    ELSE With(Unwrapped(doc), LAMBDA data :
             IF JsonKind(data) # "list" THEN <<>>
             ELSE IF data.items = <<>> THEN <<>>
             ELSE IF ~HasUserId(data.items[1]) THEN <<>>
             ELSE IF \E i \in DOMAIN data.items : InRaises(data.items[i]) THEN <<>>
             ELSE With(SelectSeq(data.items, HasUserId), LAMBDA kept :
                      [i \in DOMAIN kept |->
                          Entry(kept[i].user_id,
                                IF "name" \in DOMAIN kept[i] THEN kept[i].name ELSE <<>>)]))

ParseFile(file) == IF file = None THEN <<>> ELSE LoadJson(Val(file))

LoadBlocklistData(s) ==
    IF s.data # None THEN s ELSE [s EXCEPT !.data = Some(ParseFile(s.file))]

LoadBlocklist(s) ==
    IF s.ids # None
    THEN s
    ELSE LET s1 == LoadBlocklistData(s)
         IN  [s1 EXCEPT !.ids = Some(IdsOf(Val(s1.data)))]

\* the first entry of each user_id, its name stripped
RECURSIVE Unique(_, _)
Unique(data, seen) ==
    IF data = <<>> THEN <<>>
    ELSE LET item == Head(data)
         IN  IF item.user_id \in seen
             THEN Unique(Tail(data), seen)
             ELSE <<Entry(item.user_id, Strip(item.name))>>
                  \o Unique(Tail(data), seen \cup {item.user_id})

RECURSIVE InsertById(_, _)
InsertById(item, sorted) ==
    IF sorted = <<>> THEN <<item>>
    ELSE IF item.user_id < Head(sorted).user_id
         THEN <<item>> \o sorted
         ELSE <<Head(sorted)>> \o InsertById(item, Tail(sorted))

RECURSIVE SortById(_)
SortById(data) ==
    IF data = <<>> THEN <<>>
    ELSE InsertById(data[Len(data)], SortById(SubSeq(data, 1, Len(data) - 1)))

\* what the write does: "ok", or "fail": open() raises and the file is as it was
WriteOutcomes == {"ok", "fail"}

SaveLosesCaches(s, blocklist_data, w) ==
    IF w = "ok"
    THEN [st |-> [s EXCEPT !.file = Some(JsonList(SortById(Unique(blocklist_data, {}))))],
          ret |-> TRUE]
    ELSE [st |-> s, ret |-> FALSE]

SaveBlocklistData(s, blocklist_data, w) ==
    IF w = "ok"
    THEN LET unique_data == SortById(Unique(blocklist_data, {}))
         IN  [st |-> [file |-> Some(JsonList(unique_data)),
                      data |-> Some(unique_data),
                      ids |-> Some(IdsOf(unique_data))],
              ret |-> TRUE]
    ELSE [st |-> s, ret |-> FALSE]

IsBlocked(s, user_id) == user_id \in Val(LoadBlocklist(s).ids)

\* a variant that never refreshes the name of an entry it finds
AddNeverRenames(s, user_id, name, w) ==
    LET s1 == LoadBlocklistData(s)
        data == Val(s1.data)
    IN  IF HasId(data, user_id)
        THEN [st |-> s1, ret |-> FALSE]
        ELSE LET data2 == Append(data, Entry(user_id, Strip(name)))
             IN  SaveBlocklistData([s1 EXCEPT !.data = Some(data2)], data2, w)

\* a variant that saves the new entry alone
AddOverwrites(s, user_id, name, w) ==
    LET s1 == LoadBlocklistData(s)
    IN  IF HasId(Val(s1.data), user_id)
        THEN [st |-> s1, ret |-> FALSE]
        ELSE SaveBlocklistData(s1, <<Entry(user_id, Strip(name))>>, w)

\* blocklist_data is the cached list itself: append and the name assignment
\* change the cache in place, before the save
AddToBlocklist(s, user_id, name, w) ==
    LET s1 == LoadBlocklistData(s)
        data == Val(s1.data)
    IN  IF HasId(data, user_id)
        THEN LET i == FirstIndex(data, user_id)
             IN  IF name # <<>> /\ data[i].name # name
                 THEN LET data2 == [data EXCEPT ![i].name = name]
                      IN  SaveBlocklistData([s1 EXCEPT !.data = Some(data2)], data2, w)
                 ELSE [st |-> s1, ret |-> FALSE]
        ELSE LET data2 == Append(data, Entry(user_id, Strip(name)))
             IN  SaveBlocklistData([s1 EXCEPT !.data = Some(data2)], data2, w)

RemoveFromBlocklist(s, user_id, w) ==
    LET s1 == LoadBlocklistData(s)
        data == Val(s1.data)
        kept == SelectSeq(data, LAMBDA item : item.user_id # user_id)
    IN  IF Len(kept) = Len(data)
        THEN [st |-> s1, ret |-> FALSE]
        ELSE SaveBlocklistData(s1, kept, w)

GetBlocklist(s) == Val(LoadBlocklistData(s).data)

(***************************************************************************)
(* Texts.  Digits are the tokens "0" .. "9"; an id is written in base 10   *)
(* and read back by int().                                                 *)
(***************************************************************************)
DigitTok == <<"0", "1", "2", "3", "4", "5", "6", "7", "8", "9">>

IsDigit(ch) == \E d \in 1..Len(DigitTok) : DigitTok[d] = ch

DigitValue(ch) == (CHOOSE d \in 1..Len(DigitTok) : DigitTok[d] = ch) - 1

RECURSIVE FormatInt(_)
FormatInt(n) ==
    IF n < Len(DigitTok) THEN <<DigitTok[n + 1]>>
    ELSE FormatInt(n \div Len(DigitTok)) \o <<DigitTok[(n % Len(DigitTok)) + 1]>>

RECURSIVE ParseInt(_)
ParseInt(ds) ==
    IF ds = <<>> THEN 0
    ELSE ParseInt(SubSeq(ds, 1, Len(ds) - 1)) * Len(DigitTok) + DigitValue(ds[Len(ds)])

\* the first index from i on that holds no white space
RECURSIVE SkipSpaces(_, _)
SkipSpaces(text, i) ==
    IF i <= Len(text) /\ IsSpace(text[i]) THEN SkipSpaces(text, i + 1) ELSE i

\* the first index from i on that holds no digit
RECURSIVE SkipDigits(_, _)
SkipDigits(text, i) ==
    IF i <= Len(text) /\ IsDigit(text[i]) THEN SkipDigits(text, i + 1) ELSE i

\* re.search(r'用户ID:\s*(\d+)', text) from index i on: the first place where
\* the label, white space and at least one digit follow each other
RECURSIVE SearchUserId(_, _)
SearchUserId(text, i) ==
    IF i > Len(text) THEN None
    ELSE IF text[i] = "L"
         THEN LET j == SkipSpaces(text, i + 1)
                  k == SkipDigits(text, j)
              IN  IF k > j
                  THEN Some(ParseInt(SubSeq(text, j, k - 1)))
                  ELSE SearchUserId(text, i + 1)
         ELSE SearchUserId(text, i + 1)

ExtractUserIdFromMessage(message_text) == SearchUserId(message_text, 1)

\* str.lower(), on one token and on a text
LowerTok(ch) ==
    IF ch = "K" THEN "k" ELSE IF ch = "H" THEN "h" ELSE IF ch = "Group" THEN "group" ELSE ch

Lower(text) == [i \in 1..Len(text) |-> LowerTok(text[i])]

\* keyword in text
Contains(text, keyword) ==
    \E i \in 0..(Len(text) - Len(keyword)) :
        SubSeq(text, i + 1, i + Len(keyword)) = keyword

\* config.block_keywords, as configured
BlockKeywords == {<<"k">>}

ContainsBlockKeywords(text) ==
    /\ text # <<>>
    /\ \E keyword \in BlockKeywords : Contains(Lower(text), Lower(keyword))

(***************************************************************************)
(* The relay.  An update is handled in one step; the outbound calls the    *)
(* handler makes are listed in ev.calls, in order, each with the site of   *)
(* the code that makes it and whether the platform accepted it.  oks[i]    *)
(* says whether the i-th call the handler makes succeeds.                  *)
(***************************************************************************)
\* config.manager_chatid and int(config.group_chatid)
ManagerChatId == <<"9">>
GroupChatId == -1

Contacts == 1..MaxContact
Senders == Contacts \cup {ParseInt(ManagerChatId)}

IsManager(chat_id) == FormatInt(chat_id) = ManagerChatId

\* effective_user: first_name, last_name, username
NoProfile == [first |-> <<>>, last |-> <<>>, username |-> <<>>]
NamedProfile == [first |-> <<"a">>, last |-> <<>>, username |-> <<"u">>]

MediaOrder == <<"photo", "document", "video", "audio", "voice">>

\* a variant that takes the last kind of the order
LastKind(media) ==
    MediaOrder[CHOOSE i \in 1..Len(MediaOrder) :
                   /\ MediaOrder[i] \in media
                   /\ \A j \in (i + 1)..Len(MediaOrder) : MediaOrder[j] \notin media]

\* the first attribute of the message that is set, in the order of the elif chain
FirstKind(media) ==
    MediaOrder[CHOOSE i \in 1..Len(MediaOrder) :
                   /\ MediaOrder[i] \in media
                   /\ \A j \in 1..(i - 1) : MediaOrder[j] \notin media]

SendApi(kind) ==
    CASE kind = "photo" -> "send_photo"
      [] kind = "document" -> "send_document"
      [] kind = "video" -> "send_video"
      [] kind = "audio" -> "send_audio"
      [] kind = "voice" -> "send_voice"

Call(site, api, chat, thread, text, markup, ok) ==
    [site |-> site, api |-> api, chat |-> chat, thread |-> thread, text |-> text,
     markup |-> markup, ok |-> ok]

ReplyText(site, chat, ok) == Call(site, "reply_text", chat, 0, <<site>>, <<>>, ok)

\* "\n\n" + "=" * 25 + "\n用户ID: {chat_id}", then the name and the handle
UserInfo(chat_id, user) ==
    <<"\n", "\n", "=", "\n", "L", " ">> \o FormatInt(chat_id)
    \o (IF user.first # <<>> \/ user.last # <<>>
        THEN <<"\n", "N", " ">> \o Strip(user.first \o <<" ">> \o user.last)
        ELSE <<>>)
    \o (IF user.username # <<>> THEN <<"\n", "U", " ", "@">> \o user.username ELSE <<>>)

Button(text, url, callback_data) ==
    [text |-> text, url |-> url, callback_data |-> callback_data]

BlockButton(chat_id) ==
    Button(<<"#block">>, <<>>, <<"block_user", ":">> \o FormatInt(chat_id))

\* the label of the button that links to the contact, direct mode
UserName(chat_id, user) ==
    IF user.first # <<>>
    THEN user.first \o (IF user.last # <<>> THEN <<" ">> \o user.last ELSE <<>>)
    ELSE IF user.username # <<>>
         THEN <<"@">> \o user.username
         ELSE <<"#user", " ">> \o FormatInt(chat_id)

DirectKeyboard(chat_id, user) ==
    << <<Button(UserName(chat_id, user), <<"tg://user?id=">> \o FormatInt(chat_id), <<>>)>>,
       <<BlockButton(chat_id)>> >>

TopicKeyboard(chat_id) == << <<BlockButton(chat_id)>> >>

\* a reply that raises takes the handler to its except clause, which tries
\* one more reply
WithApology(calls, site, oks) ==
    IF calls[Len(calls)].ok THEN calls
    ELSE Append(calls, ReplyText(site, calls[Len(calls)].chat, oks[Len(calls) + 1]))

\* TGBot.send_message / _forward_media_to_user: one send to user_id, of the
\* kind of the message; the result is the call's ok
Deliver(msg, user_id, ok) ==
    IF msg.media # {}
    THEN <<Call("deliver", SendApi(FirstKind(msg.media)), user_id, 0, msg.text, <<>>, ok)>>
    ELSE IF msg.text # <<>>
         THEN <<Call("deliver", "send_message", user_id, 0, msg.text, <<>>, ok)>>
         ELSE <<>>

\* TGBot._handle_manager_reply
HandleManagerReply(msg, oks) ==
    IF msg.reply_to = None
    THEN WithApology(<<ReplyText("#usage", msg.chat, oks[1])>>, "#reply_error", oks)
    ELSE IF Val(msg.reply_to) = <<>>
    THEN WithApology(<<ReplyText("#no_user_info", msg.chat, oks[1])>>, "#reply_error", oks)
    ELSE LET target == ExtractUserIdFromMessage(Val(msg.reply_to))
         IN  IF target = None \/ Val(target) = 0
             THEN WithApology(<<ReplyText("#no_user_id", msg.chat, oks[1])>>,
                              "#reply_error", oks)
             ELSE LET sent == Deliver(msg, Val(target), oks[1])
                  IN  IF sent = <<>>
                      THEN WithApology(<<ReplyText("#need_content", msg.chat, oks[1])>>,
                                       "#reply_error", oks)
                      ELSE WithApology(
                               Append(sent, ReplyText(IF oks[1] THEN "#sent" ELSE "#send_failed",
                                                      msg.chat, oks[2])),
                               "#reply_error", oks)

\* what a handler of messages or commands has done when it returns: every one
\* of them is a try statement whose except clause logs, and whose reply in the
\* except clause is itself in try/except, so nothing is raised to the caller
Handled(calls, s, t, path) ==
    [calls |-> calls, cfg |-> s, topics |-> t, path |-> path, raised |-> FALSE]

\* a variant that does not look at the blocklist
FilterIgnoresBlocklist(s, chat_id, text) ==
    IF ContainsBlockKeywords(text) THEN "keyword" ELSE "pass"

\* the filter of the contact handlers: the blocklist, then the keywords
Filter(s, chat_id, text) ==
    IF IsBlocked(s, chat_id) THEN "blocked"
    ELSE IF ContainsBlockKeywords(text) THEN "keyword"
    ELSE "pass"

\* a variant that acknowledges first and relays afterwards
DirectRelayAckFirst(msg, user, oks) ==
    <<ReplyText("#received", msg.chat, oks[1]),
      Call("relay", "send_message", ParseInt(ManagerChatId), 0,
           msg.text \o UserInfo(msg.chat, user), DirectKeyboard(msg.chat, user), oks[2])>>

\* TGBot._handle_message from line 660 on: _notify_manager, which logs a
\* failed send, then the acknowledgement
DirectRelayText(msg, user, oks) ==
    WithApology(
        <<Call("relay", "send_message", ParseInt(ManagerChatId), 0,
               msg.text \o UserInfo(msg.chat, user), DirectKeyboard(msg.chat, user), oks[1]),
          ReplyText("#received", msg.chat, oks[2])>>,
        "#handler_error", oks)

\* TGBot._handle_media from line 725 on: _forward_media_to_manager, which logs
\* a failed send, then the acknowledgement
DirectRelayMedia(msg, user, oks) ==
    LET kind == FirstKind(msg.media)
        caption == IF msg.text # <<>>
                   THEN msg.text \o UserInfo(msg.chat, user)
                   ELSE <<"#media_from_user", kind>> \o UserInfo(msg.chat, user)
    IN  <<Call("relay", SendApi(kind), ParseInt(ManagerChatId), 0, caption,
               DirectKeyboard(msg.chat, user), oks[1]),
          ReplyText("#received", msg.chat, oks[2])>>

\* TGBot._handle_message
HandleMessage(msg, user, oks, s, t) ==
    IF IsManager(msg.chat)
    THEN Handled(HandleManagerReply(msg, oks), s, t, "manager_reply")
    ELSE LET f == Filter(s, msg.chat, msg.text)
         IN  IF f # "pass"
             THEN Handled(<<>>, LoadBlocklist(s), t, f)
             ELSE Handled(DirectRelayText(msg, user, oks), LoadBlocklist(s), t, "relayed")

\* TGBot._handle_media
HandleMedia(msg, user, oks, s, t) ==
    IF IsManager(msg.chat)
    THEN IF msg.reply_to # None
         THEN Handled(HandleManagerReply(msg, oks), s, t, "manager_reply")
         ELSE Handled(<<>>, s, t, "ignored")
    ELSE LET f == Filter(s, msg.chat, msg.text)
         IN  IF f # "pass"
             THEN Handled(<<>>, LoadBlocklist(s), t, f)
             ELSE Handled(DirectRelayMedia(msg, user, oks), LoadBlocklist(s), t, "relayed")

(***************************************************************************)
(* Topic mode.  A topic state t is [u2t, t2u, file, created].              *)
(***************************************************************************)
TopicTitleMax == 50

Topics == [u2t |-> user_topic_map, t2u |-> topic_user_map, file |-> topic_map_file,
           created |-> forum_topics]

SetTopics(t) ==
    /\ user_topic_map' = t.u2t
    /\ topic_user_map' = t.t2u
    /\ topic_map_file' = t.file
    /\ forum_topics' = t.created

InitTopics ==
    /\ user_topic_map = <<>>
    /\ topic_user_map = <<>>
    /\ topic_map_file = None
    /\ forum_topics = 0

\* TGGroupBot._user_display_name
UserDisplayName(chat_id, user) ==
    IF user.first # <<>> \/ user.last # <<>>
    THEN user.first
         \o (IF user.first # <<>> /\ user.last # <<>> THEN <<" ">> ELSE <<>>)
         \o user.last
    ELSE IF user.username # <<>>
         THEN <<"@">> \o user.username
         ELSE <<"#user", " ">> \o FormatInt(chat_id)

Truncate(text, n) == SubSeq(text, 1, IF Len(text) < n THEN Len(text) ELSE n)

\* json.dump of a dict with integer keys: the keys become strings
DumpMap(m) == {<<FormatInt(k), m[k]>> : k \in DOMAIN m}

\* {int(k): int(v) for k, v in data.get(...).items()}
LoadMap(pairs) ==
    [k \in {ParseInt(p[1]) : p \in pairs} |->
        (CHOOSE p \in pairs : ParseInt(p[1]) = k)[2]]

\* TGGroupBot._save_topic_map: the file after the write; w: what the write does
SaveTopicMap(t, w) ==
    IF w = "ok"
    THEN Some([user_to_topic |-> DumpMap(t.u2t), topic_to_user |-> DumpMap(t.t2u)])
    ELSE t.file

\* TGGroupBot._load_topic_map: the two maps read from the file
LoadTopicMap(file) ==
    IF file = None
    THEN [u2t |-> <<>>, t2u |-> <<>>]
    ELSE [u2t |-> LoadMap(Val(file).user_to_topic),
          t2u |-> LoadMap(Val(file).topic_to_user)]

\* _ensure_topic after create_forum_topic has returned thread_id: both maps
\* are set, then the file is written
RecordTopic(t, user_id, thread_id, w) ==
    LET u2t == [u \in DOMAIN t.u2t \cup {user_id} |->
                   IF u = user_id THEN thread_id ELSE t.u2t[u]]
        t2u == [h \in DOMAIN t.t2u \cup {thread_id} |->
                   IF h = thread_id THEN user_id ELSE t.t2u[h]]
        t1 == [t EXCEPT !.u2t = u2t, !.t2u = t2u]
    IN  [t1 EXCEPT !.file = SaveTopicMap(t1, w)]

\* the platform numbers the threads of the group as it creates them
NewThread(t) == [t EXCEPT !.created = t.created + 1]

CreateTopicCall(user_id, user, ok) ==
    Call("create_topic", "create_forum_topic", GroupChatId, 0,
         Truncate(UserDisplayName(user_id, user), TopicTitleMax), <<>>, ok)

\* a variant that records a pair although the creation failed
EnsureTopicCommitsFailure(t, user_id, user, ok, w) ==
    IF user_id \in DOMAIN t.u2t
    THEN [thread |-> Some(t.u2t[user_id]), t |-> t, calls |-> <<>>]
    ELSE [thread |-> (IF ok THEN Some(t.created + 1) ELSE None),
          t |-> RecordTopic(NewThread(t), user_id, t.created + 1, w),
          calls |-> <<CreateTopicCall(user_id, user, ok)>>]

\* TGGroupBot._ensure_topic: [thread, t, calls]; ok: create_forum_topic succeeds;
\* w: what the write of group_topics.json does
EnsureTopic(t, user_id, user, ok, w) ==
    IF user_id \in DOMAIN t.u2t
    THEN [thread |-> Some(t.u2t[user_id]), t |-> t, calls |-> <<>>]
    ELSE IF ok
         THEN [thread |-> Some(t.created + 1),
               t |-> RecordTopic(NewThread(t), user_id, t.created + 1, w),
               calls |-> <<CreateTopicCall(user_id, user, ok)>>]
         ELSE [thread |-> None, t |-> t, calls |-> <<CreateTopicCall(user_id, user, ok)>>]

\* the calls after e.calls are numbered on from them
Shift(oks, n) == [i \in 1..MaxCalls |-> IF i + n <= MaxCalls THEN oks[i + n] ELSE TRUE]

\* TGGroupBot._handle_user_text
HandleUserText(msg, user, oks, s, t, w) ==
    LET f == Filter(s, msg.chat, msg.text)
    IN  IF f # "pass"
        THEN Handled(<<>>, LoadBlocklist(s), t, f)
        ELSE LET e == EnsureTopic(t, msg.chat, user, oks[1], w)
                 rest == Shift(oks, Len(e.calls))
             IN  IF e.thread = None \/ Val(e.thread) = 0
                 THEN Handled(e.calls \o WithApology(<<ReplyText("#topic_failed", msg.chat, rest[1])>>,
                                                     "#handler_error", rest),
                              LoadBlocklist(s), e.t, "topic_failed")
                 ELSE LET relay == Call("relay", "send_message", GroupChatId, Val(e.thread),
                                        msg.text \o UserInfo(msg.chat, user),
                                        TopicKeyboard(msg.chat), rest[1])
                      IN  Handled(
                              e.calls \o
                              (IF rest[1]
                               THEN WithApology(<<relay, ReplyText("#received", msg.chat, rest[2])>>,
                                                "#handler_error", rest)
                               ELSE <<relay, ReplyText("#handler_error", msg.chat, rest[2])>>),
                              LoadBlocklist(s), e.t, "relayed")

\* TGGroupBot._handle_user_media; _forward_media_to_group logs a failed send
HandleUserMedia(msg, user, oks, s, t, w) ==
    LET f == Filter(s, msg.chat, msg.text)
    IN  IF f # "pass"
        THEN Handled(<<>>, LoadBlocklist(s), t, f)
        ELSE LET e == EnsureTopic(t, msg.chat, user, oks[1], w)
                 rest == Shift(oks, Len(e.calls))
             IN  IF e.thread = None \/ Val(e.thread) = 0
                 THEN Handled(e.calls \o <<ReplyText("#topic_failed", msg.chat, rest[1])>>,
                              LoadBlocklist(s), e.t, "topic_failed")
                 ELSE LET kind == FirstKind(msg.media)
                          caption == IF msg.text # <<>>
                                     THEN msg.text \o UserInfo(msg.chat, user)
                                     ELSE <<"#media">> \o UserInfo(msg.chat, user)
                      IN  Handled(
                              e.calls \o
                              <<Call("relay", SendApi(kind), GroupChatId, Val(e.thread), caption,
                                     TopicKeyboard(msg.chat), rest[1]),
                                ReplyText("#received", msg.chat, rest[2])>>,
                              LoadBlocklist(s), e.t, "relayed")

\* a variant that does not look for a command
HandleGroupNoCommandCheck(msg, oks, s, t) ==
    IF msg.thread = 0
    THEN Handled(<<>>, s, t, "ignored")
    ELSE IF msg.thread \notin DOMAIN t.t2u \/ t.t2u[msg.thread] = 0
    THEN Handled(<<>>, s, t, "ignored")
    ELSE LET sent == Deliver(msg, t.t2u[msg.thread], oks[1])
         IN  Handled(IF sent # <<>> /\ oks[1]
                     THEN sent
                     ELSE Append(sent, ReplyText("#forward_failed", GroupChatId, oks[2])),
                     s, t, "manager_reply")

\* TGGroupBot._handle_group_message: a message in the group, in thread
\* msg.thread (0: in no thread).  message.text is None on a media message,
\* whose text is its caption
HandleGroupMessage(msg, oks, s, t) ==
    IF msg.media = {} /\ msg.text # <<>> /\ Head(msg.text) = "/"
    THEN Handled(<<>>, s, t, "ignored")
    ELSE IF msg.thread = 0
    THEN Handled(<<>>, s, t, "ignored")
    ELSE IF msg.thread \notin DOMAIN t.t2u \/ t.t2u[msg.thread] = 0
    THEN Handled(<<>>, s, t, "ignored")
    ELSE LET sent == Deliver(msg, t.t2u[msg.thread], oks[1])
         IN  Handled(IF sent # <<>> /\ oks[1]
                     THEN sent
                     ELSE Append(sent, ReplyText("#forward_failed", GroupChatId, oks[2])),
                     s, t, "manager_reply")

\* no update has been handled yet
NoEvent == [kind |-> "none", chat |-> 0, text |-> <<>>, media |-> {}, reply_to |-> None,
            thread |-> 0, origin |-> 0, calls |-> <<>>, path |-> "none", raised |-> FALSE]

(***************************************************************************)
(* The list view of the blocklist.                                         *)
(***************************************************************************)
ItemsPerPage == 8

Min(a, b) == IF a < b THEN a ELSE b

Max(a, b) == IF a > b THEN a ELSE b

\* a slice index of a list of length n, as Python reads it
SliceIndex(i, n) == IF i < 0 THEN Max(0, n + i) ELSE Min(i, n)

\* seq[start:end]
Slice(seq, start, end) ==
    SubSeq(seq, SliceIndex(start, Len(seq)) + 1, SliceIndex(end, Len(seq)))

\* a variant that offers the next page on the last page too
RenderedAlwaysNext(blocklist, page, total_pages) ==
    LET start_idx == page * ItemsPerPage
        end_idx == Min(start_idx + ItemsPerPage, Len(blocklist))
    IN  [kind |-> "list", page |-> page, total_pages |-> total_pages,
         items |-> Slice(blocklist, start_idx, end_idx),
         prev |-> IF total_pages > 1 /\ page > 0 THEN Some(page - 1) ELSE None,
         next |-> IF total_pages > 1 THEN Some(page + 1) ELSE None]

\* what both renderers show of page `page` of total_pages: the items of the
\* page, and the pages the navigation buttons lead to
Rendered(blocklist, page, total_pages) ==
    LET start_idx == page * ItemsPerPage
        end_idx == Min(start_idx + ItemsPerPage, Len(blocklist))
    IN  [kind |-> "list", page |-> page, total_pages |-> total_pages,
         items |-> Slice(blocklist, start_idx, end_idx),
         prev |-> IF total_pages > 1 /\ page > 0 THEN Some(page - 1) ELSE None,
         next |-> IF total_pages > 1 /\ page < total_pages - 1 THEN Some(page + 1) ELSE None]

EmptyView == [kind |-> "empty", page |-> 0, total_pages |-> 0, items |-> <<>>,
              prev |-> None, next |-> None]

\* a variant of the shared renderer without the upper clamp
ShowNoCeiling(blocklist, page) ==
    IF blocklist = <<>> THEN EmptyView
    ELSE LET total_pages == (Len(blocklist) + ItemsPerPage - 1) \div ItemsPerPage
         IN  Rendered(blocklist, Max(0, page), total_pages)

\* utils.show_block_list, the list of page `page`
ShowBlockList(blocklist, page) ==
    IF blocklist = <<>> THEN EmptyView
    ELSE LET total_pages == (Len(blocklist) + ItemsPerPage - 1) \div ItemsPerPage
         IN  Rendered(blocklist, Max(0, Min(page, total_pages - 1)), total_pages)

\* a variant of the direct-mode renderer without the lower clamp
BotShowNoFloor(blocklist, page) ==
    IF blocklist = <<>> THEN EmptyView
    ELSE LET total_pages == (Len(blocklist) + ItemsPerPage - 1) \div ItemsPerPage
             page2 == IF page >= total_pages THEN total_pages - 1 ELSE page
         IN  Rendered(blocklist, page2, total_pages)

\* TGBot._show_block_list, the list of page `page`
BotShowBlockList(blocklist, page) ==
    IF blocklist = <<>> THEN EmptyView
    ELSE LET total_pages == (Len(blocklist) + ItemsPerPage - 1) \div ItemsPerPage
             page1 == IF page < 0 THEN 0 ELSE page
             page2 == IF page1 >= total_pages THEN total_pages - 1 ELSE page1
         IN  Rendered(blocklist, page2, total_pages)

NoView == [renderer |-> "none", blocklist |-> <<>>, arg |-> 0, out |-> EmptyView]

\* nothing is suspended, nothing has been returned or rendered
InitRun ==
    /\ pending = <<>>
    /\ returned = {}
    /\ timers = <<>>
    /\ view = NoView

(***************************************************************************)
(* Button presses.  A payload is a text in which the names of the actions, *)
(* "page" and "user" are one token each and ":" separates the fields.  A   *)
(* query q is [from, data, chat, text, markup]: who pressed, the payload,  *)
(* and the chat, text and keyboard of the message that carries the button. *)
(***************************************************************************)
\* str.startswith
StartsWith(text, prefix) ==
    Len(text) >= Len(prefix) /\ SubSeq(text, 1, Len(prefix)) = prefix

\* the index of the first ":" of text, 0 when it has none
FirstColon(text) ==
    IF \A i \in DOMAIN text : text[i] # ":" THEN 0
    ELSE CHOOSE i \in DOMAIN text : text[i] = ":" /\ \A j \in 1..(i - 1) : text[j] # ":"

\* the index of the k-th ":" of text; 0 for k = 0, Len(text) + 1 past the last
Colon(text, k) ==
    LET colons == {i \in DOMAIN text : text[i] = ":"}
    IN  IF k = 0 THEN 0
        ELSE IF k > Cardinality(colons) THEN Len(text) + 1
        ELSE CHOOSE i \in colons : Cardinality({j \in colons : j <= i}) = k

\* callback_data.split(":")
Split(text) ==
    [k \in 1..(Cardinality({i \in DOMAIN text : text[i] = ":"}) + 1) |->
        SubSeq(text, Colon(text, k - 1) + 1, Colon(text, k) - 1)]

\* callback_data.split(":", 1)[1]
AfterFirstColon(text) == SubSeq(text, FirstColon(text) + 1, Len(text))

\* int(field) raises ValueError unless field is digits, with or without a sign
Unsigned(field) ==
    IF field # <<>> /\ Head(field) \in {"-", "+"} THEN Tail(field) ELSE field

IsInt(field) ==
    Unsigned(field) # <<>> /\ \A i \in DOMAIN Unsigned(field) : IsDigit(Unsigned(field)[i])

IntOf(field) ==
    IF Head(field) = "-" THEN 0 - ParseInt(Unsigned(field)) ELSE ParseInt(Unsigned(field))

\* f"{n}"
FormatSigned(n) == IF n < 0 THEN <<"-">> \o FormatInt(0 - n) ELSE FormatInt(n)

\* the first index from i on that holds a line break
RECURSIVE LineEnd(_, _)
LineEnd(text, i) ==
    IF i <= Len(text) /\ text[i] # "\n" THEN LineEnd(text, i + 1) ELSE i

\* label + r'\s*([^\n]+)', or label + r'\s*@?([^\n]+)' when at, with the label
\* at index i: where group 1 starts, 0 when there is no match here.  \s* takes
\* all the white space and gives it back from the right until the rest matches
GroupStart(text, i, at) ==
    LET Try(p) == IF at /\ p < Len(text) /\ text[p] = "@" /\ text[p + 1] # "\n"
                  THEN p + 1
                  ELSE IF p <= Len(text) /\ text[p] # "\n" THEN p ELSE 0
        found == {p \in (i + 1)..SkipSpaces(text, i + 1) : Try(p) # 0}
    IN  IF found = {} THEN 0
        ELSE Try(CHOOSE p \in found : \A r \in found : r <= p)

\* re.search of the pattern from index i on: group(1).strip() of the first match
RECURSIVE SearchLabel(_, _, _, _)
SearchLabel(text, label, at, i) ==
    IF i > Len(text) THEN None
    ELSE IF text[i] = label /\ GroupStart(text, i, at) # 0
         THEN LET g == GroupStart(text, i, at)
              IN  Some(Strip(SubSeq(text, g, LineEnd(text, g) - 1)))
         ELSE SearchLabel(text, label, at, i + 1)

\* the name the block_user branch reads off the pressed message
ExtractUserName(message_text) ==
    IF SearchLabel(message_text, "N", FALSE, 1) # None
    THEN Val(SearchLabel(message_text, "N", FALSE, 1))
    ELSE IF SearchLabel(message_text, "U", TRUE, 1) # None
         THEN <<"@">> \o Val(SearchLabel(message_text, "U", TRUE, 1))
         ELSE <<>>

PagePayload(page) == <<"block_list", ":", "page", ":">> \o FormatSigned(page)

UserPayload(user_id, page) ==
    <<"block_list", ":", "user", ":">> \o FormatSigned(user_id)
    \o <<":", "page", ":">> \o FormatSigned(page)

UnblockPayload(user_id, page) ==
    <<"unblock_user", ":">> \o FormatSigned(user_id) \o <<":", "page", ":">> \o FormatSigned(page)

CloseRow == <<Button(<<"#close">>, <<>>, <<"close_block_list">>)>>

\* the keyboard of the list view v: one row per entry of the page, the
\* navigation row, the closing row
ListKeyboard(v) ==
    [k \in 1..Len(v.items) |->
        <<Button(IF v.items[k].name # <<>> THEN v.items[k].name
                 ELSE <<"#user", " ">> \o FormatSigned(v.items[k].user_id),
                 <<>>, UserPayload(v.items[k].user_id, v.page))>>]
    \o (IF v.prev # None \/ v.next # None
        THEN << (IF v.prev # None
                 THEN <<Button(<<"#prev">>, <<>>, PagePayload(Val(v.prev)))>> ELSE <<>>)
                \o (IF v.next # None
                    THEN <<Button(<<"#next">>, <<>>, PagePayload(Val(v.next)))>> ELSE <<>>) >>
        ELSE <<>>)
    \o <<CloseRow>>

ListText(blocklist, v) ==
    <<"#block_list">> \o FormatInt(Len(blocklist)) \o <<" ">> \o FormatInt(v.page + 1)
    \o <<"/">> \o FormatInt(v.total_pages)

DetailKeyboard(user_id, page) ==
    << <<Button(<<"#back">>, <<>>, PagePayload(page)),
         Button(<<"#confirm_unblock">>, <<>>, UnblockPayload(user_id, page))>>,
       CloseRow >>

DetailText(item) ==
    <<"#detail", "\n", "\n", "L", " ">> \o FormatSigned(item.user_id)
    \o <<"\n", "N", " ">> \o (IF item.name # <<>> THEN item.name ELSE <<"#unset">>)

\* message.edit_text, and message.reply_text when the edit raises: the calls
\* from the (k+1)-th of the handler on
EditOrReply(q, text, markup, oks, k) ==
    IF oks[k + 1]
    THEN <<Call("show", "edit_text", q.chat, 0, text, markup, TRUE)>>
    ELSE <<Call("show", "edit_text", q.chat, 0, text, markup, FALSE),
           Call("show", "reply_text", q.chat, 0, text, markup, oks[k + 2])>>

\* show_block_list (direct: TGBot._show_block_list) on the pressed message:
\* the calls it makes; it logs whatever they raise
ShowCalls(direct, s, q, page, user_id, oks, k) ==
    With(GetBlocklist(s), LAMBDA blocklist :
        IF user_id # None
        THEN IF ~HasId(blocklist, Val(user_id))
             THEN <<Call("show", "reply_text", q.chat, 0, <<"#not_in_list">>, <<>>, oks[k + 1])>>
             ELSE EditOrReply(q, DetailText(blocklist[FirstIndex(blocklist, Val(user_id))]),
                              DetailKeyboard(Val(user_id), page), oks, k)
        ELSE IF blocklist = <<>>
        THEN <<Call("show", "reply_text", q.chat, 0, <<"#empty_list">>, <<>>, oks[k + 1])>>
        ELSE With(IF direct THEN BotShowBlockList(blocklist, page)
                  ELSE ShowBlockList(blocklist, page),
                  LAMBDA v : EditOrReply(q, ListText(blocklist, v), ListKeyboard(v), oks, k)))

\* query.answer(text); query.answer() has no text
Answer(text, q, ok) == Call("callback", "answer", q.from, 0, text, <<>>, ok)

\* a variant that replaces every button
MarkEveryButton(keyboard, data) ==
    [r \in DOMAIN keyboard |->
        [c \in DOMAIN keyboard[r] |-> Button(<<"#blocked_mark">>, <<>>, <<"already_blocked">>)]]

\* the keyboard with every button of payload data replaced by the mark
MarkBlocked(keyboard, data) ==
    [r \in DOMAIN keyboard |->
        [c \in DOMAIN keyboard[r] |->
            IF keyboard[r][c].callback_data = data
            THEN Button(<<"#blocked_mark">>, <<>>, <<"already_blocked">>)
            ELSE keyboard[r][c]]]

\* what a stretch of a handler has done: its calls, the configuration, the
\* branch taken, and whether an exception leaves it
Pressed(calls, s, path, raised) ==
    [calls |-> calls, cfg |-> s, path |-> path, raised |-> raised]

\* the inner except clause of the block_user branch: an answer that raises
\* is followed by the answer "processing failed"
Guarded(q, calls, s, path, oks, k) ==
    IF calls[Len(calls)].ok THEN Pressed(calls, s, path, FALSE)
    ELSE Pressed(Append(calls, Answer(<<"#failed">>, q, oks[k + Len(calls) + 1])), s, path,
                 ~oks[k + Len(calls) + 1])

\* the block_user branch, the same in both handlers; k calls have been made
BlockUserPressed(q, s, oks, k, w) ==
    IF ~IsInt(AfterFirstColon(q.data))
    THEN Pressed(<<Answer(<<"#invalid_id">>, q, oks[k + 1])>>, s, "invalid_id", ~oks[k + 1])
    ELSE With(IntOf(AfterFirstColon(q.data)), LAMBDA user_id :
             IF IsBlocked(s, user_id)
             THEN Guarded(q, <<Answer(<<"#already_blocked">>, q, oks[k + 1])>>,
                          LoadBlocklist(s), "already_blocked", oks, k)
             ELSE With(AddToBlocklist(LoadBlocklist(s), user_id, ExtractUserName(q.text), w),
                       LAMBDA r :
                      IF ~r.ret
                      THEN Guarded(q, <<Answer(<<"#block_failed">>, q, oks[k + 1])>>,
                                   r.st, "block_failed", oks, k)
                      ELSE IF oks[k + 1] /\ q.markup # <<>>
                      THEN Pressed(<<Answer(<<"#blocked">>, q, TRUE),
                                     Call("callback", "edit_reply_markup", q.chat, 0, <<>>,
                                          MarkBlocked(q.markup, q.data), oks[k + 2])>>,
                                   r.st, "blocked", FALSE)
                      ELSE Guarded(q, <<Answer(<<"#blocked">>, q, oks[k + 1])>>,
                                   r.st, "blocked", oks, k)))

\* the handlers from the first query.answer() on, which has succeeded.  The
\* direct-mode handler answers once more in the show_help, block_list and
\* close_block_list branches
Branches(direct, q, s, oks, w) ==
    With(Split(q.data), LAMBDA parts :
    LET pre == IF direct THEN <<Answer(<<>>, q, oks[2])>> ELSE <<>>
        k == 1 + Len(pre)
        pre_ok == \A i \in DOMAIN pre : pre[i].ok
    IN  IF StartsWith(q.data, <<"block_user", ":">>)
        THEN BlockUserPressed(q, s, oks, 1, w)
        ELSE IF q.data = <<"show_help">>
        THEN IF ~pre_ok THEN Pressed(pre, s, "help", TRUE)
             ELSE Pressed(Append(pre, Call("callback", "reply_text", q.chat, 0, <<"#help">>,
                                           <<>>, oks[k + 1])),
                          s, "help", ~oks[k + 1])
        ELSE IF StartsWith(q.data, <<"block_list", ":">>)
        THEN IF ~pre_ok THEN Pressed(pre, s, "list", TRUE)
             ELSE IF Len(parts) >= 3 /\ parts[2] = <<"page">>
             THEN IF ~IsInt(parts[3]) THEN Pressed(pre, s, "value_error", TRUE)
                  ELSE Pressed(pre \o ShowCalls(direct, s, q, IntOf(parts[3]), None, oks, k),
                               LoadBlocklistData(s), "list", FALSE)
             ELSE IF Len(parts) >= 5 /\ parts[2] = <<"user">>
             THEN IF ~IsInt(parts[3]) \/ ~IsInt(parts[5])
                  THEN Pressed(pre, s, "value_error", TRUE)
                  ELSE Pressed(pre \o ShowCalls(direct, s, q, IntOf(parts[5]),
                                                Some(IntOf(parts[3])), oks, k),
                               LoadBlocklistData(s), "detail", FALSE)
             ELSE Pressed(pre, s, "ignored", FALSE)
        ELSE IF StartsWith(q.data, <<"unblock_user", ":">>)
        THEN IF Len(parts) < 4 THEN Pressed(<<>>, s, "ignored", FALSE)
             ELSE IF ~IsInt(parts[2]) \/ ~IsInt(parts[4])
             THEN Pressed(<<>>, s, "value_error", TRUE)
             ELSE With(RemoveFromBlocklist(s, IntOf(parts[2]), w), LAMBDA r :
                      IF ~r.ret
                      THEN Pressed(<<Answer(<<"#unblock_failed">>, q, oks[2])>>, r.st,
                                   "unblock_failed", ~oks[2])
                      ELSE IF ~oks[2]
                      THEN Pressed(<<Answer(<<"#unblocked">>, q, FALSE)>>, r.st,
                                   "unblocked", TRUE)
                      ELSE Pressed(<<Answer(<<"#unblocked">>, q, TRUE)>>
                                   \o ShowCalls(direct, r.st, q, IntOf(parts[4]), None, oks, 2),
                                   r.st, "unblocked", FALSE))
        ELSE IF q.data = <<"close_block_list">>
        THEN IF ~pre_ok THEN Pressed(pre, s, "closed", TRUE)
             ELSE IF oks[k + 1]
             THEN Pressed(Append(pre, Call("callback", "delete", q.chat, 0, <<>>, <<>>, TRUE)),
                          s, "closed", FALSE)
             ELSE Pressed(pre \o <<Call("callback", "delete", q.chat, 0, <<>>, <<>>, FALSE),
                                    Answer(<<"#delete_failed">>, q, oks[k + 2])>>,
                          s, "closed", ~oks[k + 2])
        ELSE Pressed(<<>>, s, "ignored", FALSE))

\* handle_callback_query_common up to its first await: the operator check,
\* then already_blocked, then query.answer().  suspended: the handler goes on
\* when that query.answer() has returned
CommonBegin(q, oks) ==
    IF ~IsManager(q.from)
    THEN [calls |-> <<Answer(<<"#denied">>, q, oks[1])>>, path |-> "denied", suspended |-> FALSE]
    ELSE IF q.data = <<"already_blocked">>
    THEN [calls |-> <<Answer(<<"#already_blocked">>, q, oks[1])>>, path |-> "already_blocked",
          suspended |-> FALSE]
    ELSE [calls |-> <<Answer(<<>>, q, oks[1])>>, path |-> "failed", suspended |-> oks[1]]

\* a variant without the outer except clause
CommonFinishNoExcept(q, s, oks, w) ==
    With(Branches(FALSE, q, s, oks, w), LAMBDA b :
        [calls |-> b.calls, cfg |-> b.cfg, path |-> b.path, raised |-> b.raised])

\* handle_callback_query_common after its first query.answer(): the outer
\* except clause logs what the branches raise
CommonFinish(q, s, oks, w) ==
    With(Branches(FALSE, q, s, oks, w), LAMBDA b :
        [calls |-> b.calls, cfg |-> b.cfg, path |-> b.path, raised |-> FALSE])

\* TGBot._handle_callback_query up to its first await: already_blocked, then
\* the operator check, then query.answer(); the outer except clause answers
\* "processing failed" when the answer raises
BotBegin(q, oks) ==
    LET Sorry(calls) == IF calls[1].ok THEN calls
                        ELSE Append(calls, Answer(<<"#failed">>, q, oks[2]))
    IN  IF q.data = <<"already_blocked">>
        THEN [calls |-> Sorry(<<Answer(<<"#already_blocked">>, q, oks[1])>>),
              path |-> "already_blocked", suspended |-> FALSE]
        ELSE IF ~IsManager(q.from)
        THEN [calls |-> Sorry(<<Answer(<<"#denied">>, q, oks[1])>>), path |-> "denied",
              suspended |-> FALSE]
        ELSE [calls |-> Sorry(<<Answer(<<>>, q, oks[1])>>), path |-> "failed",
              suspended |-> oks[1]]

\* TGBot._handle_callback_query after its first query.answer(): the outer
\* except clause answers "processing failed" to what the branches raise
BotFinish(q, s, oks, w) ==
    With(Branches(TRUE, q, s, oks, w), LAMBDA b :
        [calls |-> IF b.raised
                   THEN Append(b.calls, Answer(<<"#failed">>, q, oks[Len(b.calls) + 2]))
                   ELSE b.calls,
         cfg |-> b.cfg, path |-> b.path, raised |-> FALSE])

\* a handler as a whole: the one of the mode
HandleCallback(direct, q, s, oks, w) ==
    With(IF direct THEN BotBegin(q, oks) ELSE CommonBegin(q, oks), LAMBDA begin :
        IF begin.suspended
        THEN With(IF direct THEN BotFinish(q, s, oks, w) ELSE CommonFinish(q, s, oks, w),
                  LAMBDA finish : [calls |-> begin.calls \o finish.calls, cfg |-> finish.cfg,
                                   path |-> finish.path, raised |-> finish.raised])
        ELSE [calls |-> begin.calls, cfg |-> s, path |-> begin.path, raised |-> FALSE])

(***************************************************************************)
(* Plugin initialisation.  The settings are texts, empty when missing.     *)
(* init_tg_bot runs once after the plugin is set up: it picks the mode,    *)
(* checks the settings, builds the application of the mode's bot and       *)
(* creates the task that starts it.                                        *)
(***************************************************************************)
PluginConfig(tgbot_token, manager_chatid, group_chatid, mode) ==
    [tgbot_token |-> tgbot_token, manager_chatid |-> manager_chatid,
     group_chatid |-> group_chatid, forward_mode |-> mode]

\* a variant in which every value but "private" selects the topic mode
GetForwardModeGroupElse(c) ==
    LET mode == Strip(Lower(IF c.forward_mode # <<>> THEN c.forward_mode ELSE <<"private">>))
    IN  IF mode = <<"private">> THEN "private" ELSE "group"

\* _get_forward_mode: the setting in lower case and stripped, "private" when
\* it is empty or neither of the two modes
GetForwardMode(c) ==
    LET mode == Strip(Lower(IF c.forward_mode # <<>> THEN c.forward_mode ELSE <<"private">>))
    IN  IF mode \notin {<<"private">>, <<"group">>} THEN "private" ELSE mode[1]

\* TGForwardBotConfig.is_valid
IsValid(c) == c.tgbot_token # <<>> /\ c.manager_chatid # <<>>

\* TGForwardBotConfig.is_group_mode_valid
IsGroupModeValid(c) == c.tgbot_token # <<>> /\ c.group_chatid # <<>>

\* a bot object: whether its application is built, whether it polls
Bot(application, running) == [application |-> application, running |-> running]

\* TGBot.initialize on bot b; built: the builder builds the application
BotInitialize(b, c, built) ==
    IF ~IsValid(c) \/ ~built THEN [bot |-> b, ret |-> FALSE]
    ELSE [bot |-> [b EXCEPT !.application = TRUE], ret |-> TRUE]

\* TGGroupBot.initialize: int(config.group_chatid) raises on a text that is
\* not a number
GroupBotInitialize(b, c, built) ==
    IF ~IsGroupModeValid(c) \/ ~IsInt(c.group_chatid) \/ ~built
    THEN [bot |-> b, ret |-> FALSE]
    ELSE [bot |-> [b EXCEPT !.application = TRUE], ret |-> TRUE]

\* the bot of an instance, made when there is none
Instance(inst) == IF inst = None THEN Bot(FALSE, FALSE) ELSE Val(inst)

\* init_tg_bot up to the creation of the task: the instances it leaves, and
\* the mode of the task it creates ("off": none)
Setup(c, bot, group, built) ==
    IF GetForwardMode(c) = "group"
    THEN IF ~IsGroupModeValid(c) THEN [bot |-> bot, group |-> group, task |-> "off"]
         ELSE LET r == GroupBotInitialize(Instance(group), c, built)
              IN  [bot |-> bot, group |-> Some(r.bot),
                   task |-> IF r.ret THEN "group" ELSE "off"]
    ELSE IF ~IsValid(c) THEN [bot |-> bot, group |-> group, task |-> "off"]
         ELSE LET r == BotInitialize(Instance(bot), c, built)
              IN  [bot |-> Some(r.bot), group |-> group,
                   task |-> IF r.ret THEN "private" ELSE "off"]

\* TGBot.start and TGGroupBot.start on bot b, whose initialize is init;
\* ok: the application starts and polls
Start(b, init, ok) ==
    IF b.running THEN b
    ELSE LET r == IF b.application THEN [bot |-> b, ret |-> TRUE] ELSE init
         IN  IF ~r.ret THEN r.bot ELSE [r.bot EXCEPT !.running = ok]

\* the bot of the mode has been started with complete settings
Started ==
    /\ plugin_config = PluginConfig(<<"t">>, ManagerChatId, FormatSigned(GroupChatId),
                                    <<forward_mode>>)
    /\ bot_instance = IF forward_mode = "private" THEN Some(Bot(TRUE, TRUE)) ELSE None
    /\ group_bot_instance = IF forward_mode = "group" THEN Some(Bot(TRUE, TRUE)) ELSE None
    /\ startup = "done"

(***************************************************************************)
(* The commands.  /start answers anyone; /help, /status and /block_list    *)
(* are the operator's.  In topic mode the commands are taken in private    *)
(* chats only, and the three operator commands are the shared handlers of  *)
(* utils.py.                                                               *)
(***************************************************************************)
\* user.username, or the words "not set"
UsernameOr(user) == IF user.username # <<>> THEN user.username ELSE <<"#unset">>

\* welcome_msg: the sender's id after the id label, and the handle
WelcomeMsg(chat_id, user) ==
    <<"#welcome", "\n", "\n", "#your", "L", " ">> \o FormatInt(chat_id)
    \o <<"\n", "U", " ", "@">> \o UsernameOr(user) \o <<"\n", "\n", "#hint">>

\* the keyboard of the welcome, for the operator only
StartKeyboard(chat_id) ==
    IF IsManager(chat_id)
    THEN << <<Button(<<"#view_help">>, <<>>, <<"show_help">>)>> >>
    ELSE <<>>

\* the text that tells the operator of a new sender
NewUserMsg(chat_id, user) ==
    <<"#new_user", "\n", "L", " ">> \o FormatInt(chat_id) \o <<"\n", "U", " ">> \o UsernameOr(user)

\* status_msg; mode_label is empty in direct mode
StatusMsg(chat_id, mode_label) ==
    <<"#running", "\n", "#your", "L", " ">> \o FormatInt(chat_id)
    \o <<"\n", "#manager_id", " ">> \o ManagerChatId
    \o (IF mode_label # <<>> THEN <<"\n", "#mode", " ">> \o mode_label ELSE <<>>)

\* TGBot._handle_start and TGGroupBot._handle_start: the welcome, then for
\* anyone but the operator the notice to the operator.  TGGroupBot has no
\* _notify_manager: the attribute lookup raises and the except clause logs
HandleStart(direct, msg, user, oks, s, t) ==
    LET welcome == Call("start", "reply_text", msg.chat, 0, WelcomeMsg(msg.chat, user),
                        StartKeyboard(msg.chat), oks[1])
    IN  IF ~oks[1] THEN Handled(<<welcome>>, s, t, "start_failed")
        ELSE IF IsManager(msg.chat) THEN Handled(<<welcome>>, s, t, "welcomed")
        ELSE IF ~direct THEN Handled(<<welcome>>, s, t, "no_notify_manager")
        ELSE Handled(<<welcome,
                       Call("notify", "send_message", ParseInt(ManagerChatId), 0,
                            NewUserMsg(msg.chat, user), <<>>, oks[2])>>,
                     s, t, "announced")

\* a reply to the command, and in the shared handlers a send to the chat
\* when the reply raises
ReplyOrSend(direct, site, msg, text, oks) ==
    IF oks[1] \/ direct
    THEN <<Call(site, "reply_text", msg.chat, 0, text, <<>>, oks[1])>>
    ELSE <<Call(site, "reply_text", msg.chat, 0, text, <<>>, FALSE),
           Call(site, "send_message", msg.chat, 0, text, <<>>, oks[2])>>

\* a variant of the help command that answers anyone
HelpForAnyone(direct, msg, oks, s, t) ==
    Handled(ReplyOrSend(direct, "help", msg, <<"#help">>, oks), s, t, "help")

\* TGBot._handle_help and handle_help_command
HandleHelp(direct, msg, oks, s, t) ==
    IF ~IsManager(msg.chat) THEN Handled(<<>>, s, t, "not_manager")
    ELSE Handled(ReplyOrSend(direct, "help", msg, <<"#help">>, oks), s, t, "help")

\* TGBot._handle_status and handle_status_command(mode_label="群组话题")
HandleStatus(direct, msg, oks, s, t) ==
    IF ~IsManager(msg.chat) THEN Handled(<<>>, s, t, "not_manager")
    ELSE Handled(ReplyOrSend(direct, "status", msg,
                             StatusMsg(msg.chat, IF direct THEN <<>> ELSE <<"#topics">>), oks),
                 s, t, "status")

\* TGBot._handle_block_list and handle_block_list_command: the first page of
\* the list view on the command's message.  The view logs what its calls
\* raise, so the send of the shared handler's except clause is never made
HandleBlockList(direct, msg, oks, s, t) ==
    IF ~IsManager(msg.chat) THEN Handled(<<>>, s, t, "not_manager")
    ELSE Handled(ShowCalls(direct, s, [chat |-> msg.chat], 0, None, oks, 0),
                 LoadBlocklistData(s), t, "list")

(***************************************************************************)
(* The configuration object as the state of the model.                     *)
(***************************************************************************)
Cfg == [file |-> blocklist_file, data |-> blocklist_data_cache, ids |-> blocklist_cache]

SetCfg(s) ==
    /\ blocklist_file' = s.file
    /\ blocklist_data_cache' = s.data
    /\ blocklist_cache' = s.ids

NoOp == [op |-> "none", user_id |-> 0, name |-> <<>>, ret |-> FALSE, had |-> FALSE]

\* __init__: the file exists (created empty when missing), nothing is cached
InitConfig ==
    /\ blocklist_file = Some(JsonList(<<>>))
    /\ blocklist_data_cache = None
    /\ blocklist_cache = None

InitBlocklist ==
    /\ InitConfig
    /\ last_op = NoOp
    /\ write_failures = 0
    /\ forward_mode = "private"
    /\ InitTopics
    /\ ev = NoEvent
    /\ InitRun
    /\ Started

\* the outcomes a write can have now, and the count of the failed ones
CanWrite(w) == w = "ok" \/ write_failures < MaxWriteFailures

\* wrote: the call reached the write of the file
CountWrite(wrote, w) ==
    write_failures' = IF wrote /\ w # "ok" THEN write_failures + 1 ELSE write_failures

Record(op, user_id, name, ret) ==
    last_op' = [op |-> op, user_id |-> user_id, name |-> name, ret |-> ret,
                had |-> HasId(GetBlocklist(Cfg), user_id)]

Add(user_id, name, w) ==
    LET r == AddToBlocklist(Cfg, user_id, name, w)
    IN  /\ CanWrite(w)
        /\ SetCfg(r.st)
        /\ Record("add", user_id, name, r.ret)
        /\ CountWrite(AddToBlocklist(Cfg, user_id, name, "ok").ret, w)

Remove(user_id, w) ==
    LET r == RemoveFromBlocklist(Cfg, user_id, w)
    IN  /\ CanWrite(w)
        /\ SetCfg(r.st)
        /\ Record("remove", user_id, <<>>, r.ret)
        /\ CountWrite(RemoveFromBlocklist(Cfg, user_id, "ok").ret, w)

\* is_blocked(user_id), for any user_id: it fills the caches
Query ==
    /\ SetCfg(LoadBlocklist(Cfg))
    /\ Record("is_blocked", 0, <<>>, FALSE)
    /\ UNCHANGED write_failures

\* a variant that forgets the set of ids only
ReloadKeepsEntries ==
    /\ SetCfg([Cfg EXCEPT !.ids = None])
    /\ Record("reload", 0, <<>>, FALSE)
    /\ UNCHANGED write_failures

\* reload(): both caches are cleared
Reload ==
    /\ SetCfg([Cfg EXCEPT !.data = None, !.ids = None])
    /\ Record("reload", 0, <<>>, FALSE)
    /\ UNCHANGED write_failures

NextBlocklist ==
    /\ \/ \E u \in UserIds, n \in Names, w \in WriteOutcomes : Add(u, n, w)
       \/ \E u \in UserIds, w \in WriteOutcomes : Remove(u, w)
       \/ Query
       \/ Reload
    /\ UNCHANGED <<forward_mode, topic_vars, ev, run_vars, view, life_vars>>

SpecBlocklist == InitBlocklist /\ [][NextBlocklist]_vars

(***************************************************************************)
(* The relay as a state machine.  An update is taken when no handler is    *)
(* running, its handler runs in one step and leaves in ev what it was      *)
(* given and the calls it made, and then returns.                          *)
(***************************************************************************)
\* the outcomes of the calls of one handler: at most one of them fails
CallOutcomes == {oks \in [1..MaxCalls -> BOOLEAN] :
                    \A i, j \in 1..MaxCalls : ~oks[i] /\ ~oks[j] => i = j}

\* what the senders write: a plain text, a text with the keyword in upper
\* case, a text that holds the id label and another id
MsgTexts == {<<"h">>, <<"K">>, <<"L", " ", "2">>}
Captions == {<<>>, <<"h">>, <<"K">>}
Medias == {{"photo"}, {"voice"}}
GroupTexts == {<<>>, <<"h">>, <<"/">>}

\* effective_user of a sender: every other one has a name and a handle
Profile(chat) == IF chat % 2 = 0 THEN NamedProfile ELSE NoProfile

\* what the operator's message replies to, with the contact whose message it
\* is (0: nobody's): nothing, a message without text, a message that is not a
\* relayed one, a message of a contact as the bot relayed it
ReplyTargets ==
    {[reply_to |-> None, origin |-> 0],
     [reply_to |-> Some(<<>>), origin |-> 0],
     [reply_to |-> Some(<<"h">>), origin |-> 0]}
    \cup {[reply_to |-> Some(text \o UserInfo(c, Profile(c))), origin |-> c] :
             c \in Contacts, text \in {t \in MsgTexts : ~ContainsBlockKeywords(t)}}

NoReply == [reply_to |-> None, origin |-> 0]

Message(chat, text, media, reply_to, thread) ==
    [chat |-> chat, text |-> text, media |-> media, reply_to |-> reply_to, thread |-> thread]

Idle == ev = NoEvent

Handle(kind, msg, origin, r) ==
    /\ Idle
    /\ SetCfg(r.cfg)
    /\ SetTopics(r.topics)
    /\ ev' = [kind |-> kind, chat |-> msg.chat, text |-> msg.text, media |-> msg.media,
              reply_to |-> msg.reply_to, thread |-> msg.thread,
              origin |-> origin, calls |-> r.calls, path |-> r.path, raised |-> r.raised]
    /\ UNCHANGED <<forward_mode, last_op, write_failures>>

\* the handlers read reply_to_message of the operator's messages only
RepliesOf(chat) == IF IsManager(chat) THEN ReplyTargets ELSE {NoReply}

OnMessage(chat, text, re, oks) ==
    /\ forward_mode = "private"
    /\ LET msg == Message(chat, text, {}, re.reply_to, 0)
       IN  Handle("text", msg, re.origin, HandleMessage(msg, Profile(chat), oks, Cfg, Topics))

OnMedia(chat, caption, media, re, oks) ==
    /\ forward_mode = "private"
    /\ LET msg == Message(chat, caption, media, re.reply_to, 0)
       IN  Handle("media", msg, re.origin, HandleMedia(msg, Profile(chat), oks, Cfg, Topics))

OnUserText(chat, text, oks) ==
    /\ forward_mode = "group"
    /\ LET msg == Message(chat, text, {}, None, 0)
       IN  Handle("text", msg, 0, HandleUserText(msg, Profile(chat), oks, Cfg, Topics, "ok"))

OnUserMedia(chat, caption, media, oks) ==
    /\ forward_mode = "group"
    /\ LET msg == Message(chat, caption, media, None, 0)
       IN  Handle("media", msg, 0, HandleUserMedia(msg, Profile(chat), oks, Cfg, Topics, "ok"))

\* filters.Chat(group_chatid) & (filters.TEXT | media_filter)
OnGroupMessage(thread, text, media, oks) ==
    /\ forward_mode = "group"
    /\ text # <<>> \/ media # {}
    /\ LET msg == Message(GroupChatId, text, media, None, thread)
       IN  Handle("group", msg, 0, HandleGroupMessage(msg, oks, Cfg, Topics))

\* the handler returns
Return ==
    /\ ~Idle
    /\ ev' = NoEvent
    /\ UNCHANGED <<cfg_vars, topic_vars, forward_mode, last_op, write_failures>>

\* the blocklist changes between two updates
Block(user_id) ==
    /\ Idle
    /\ SetCfg(AddToBlocklist(Cfg, user_id, <<>>, "ok").st)
    /\ UNCHANGED <<ev, forward_mode, topic_vars, last_op, write_failures>>

Unblock(user_id) ==
    /\ Idle
    /\ SetCfg(RemoveFromBlocklist(Cfg, user_id, "ok").st)
    /\ UNCHANGED <<ev, forward_mode, topic_vars, last_op, write_failures>>

InitRelay ==
    /\ InitConfig
    /\ last_op = NoOp
    /\ write_failures = 0
    /\ forward_mode \in {"private", "group"}
    /\ InitTopics
    /\ ev = NoEvent
    /\ InitRun
    /\ Started

NextRelay ==
    /\ \/ \E chat \in Senders, text \in MsgTexts, oks \in CallOutcomes :
              \E re \in RepliesOf(chat) : OnMessage(chat, text, re, oks)
       \/ \E chat \in Senders, caption \in Captions, media \in Medias, oks \in CallOutcomes :
              \E re \in RepliesOf(chat) : OnMedia(chat, caption, media, re, oks)
       \/ \E chat \in Senders, text \in MsgTexts, oks \in CallOutcomes :
              OnUserText(chat, text, oks)
       \/ \E chat \in Senders, caption \in Captions, media \in Medias, oks \in CallOutcomes :
              OnUserMedia(chat, caption, media, oks)
       \/ \E thread \in 0..(forum_topics + 1), text \in GroupTexts, media \in {{}, {"photo"}},
             oks \in CallOutcomes :
              OnGroupMessage(thread, text, media, oks)
       \/ Return
       \/ \E u \in Contacts : Block(u)
       \/ \E u \in Contacts : Unblock(u)
    /\ UNCHANGED <<run_vars, view, life_vars>>

SpecRelay == InitRelay /\ [][NextRelay]_vars

(***************************************************************************)
(* The list view as a state machine: a blocklist of any size up to         *)
(* MaxListLen is rendered by either renderer for any requested page.       *)
(***************************************************************************)
\* a blocklist of n entries as a save leaves it
Listing(n) == [i \in 1..n |-> Entry(i, <<>>)]

PageArgs == (0 - MaxPageArg)..MaxPageArg

\* handle_callback_query_common, block_list:page:<page>
ShowShared(n, page) ==
    /\ view' = [renderer |-> "shared", blocklist |-> Listing(n), arg |-> page,
                out |-> ShowBlockList(Listing(n), page)]
    /\ UNCHANGED <<cfg_vars, topic_vars, forward_mode, last_op, write_failures, ev, run_vars>>

\* TGBot._handle_callback_query, block_list:page:<page>
ShowDirect(n, page) ==
    /\ view' = [renderer |-> "direct", blocklist |-> Listing(n), arg |-> page,
                out |-> BotShowBlockList(Listing(n), page)]
    /\ UNCHANGED <<cfg_vars, topic_vars, forward_mode, last_op, write_failures, ev, run_vars>>

InitPaging == InitBlocklist

NextPaging ==
    /\ \/ \E n \in 0..MaxListLen, page \in PageArgs : ShowShared(n, page)
       \/ \E n \in 0..MaxListLen, page \in PageArgs : ShowDirect(n, page)
    /\ UNCHANGED life_vars

SpecPaging == InitPaging /\ [][NextPaging]_vars

(***************************************************************************)
(* Topic mode with the handlers interleaved: _ensure_topic is suspended    *)
(* while create_forum_topic is under way, and other handlers run in        *)
(* between.  The process may restart; it then reads the topic map file.    *)
(***************************************************************************)
\* self._topic_user_map.get(thread_id)
TopicUser(t, thread_id) ==
    IF thread_id \in DOMAIN t.t2u THEN Some(t.t2u[thread_id]) ELSE None

Without(seq, i) == [k \in 1..(Len(seq) - 1) |-> IF k < i THEN seq[k] ELSE seq[k + 1]]

\* _ensure_topic up to the await of create_forum_topic: a mapped contact gets
\* its thread at once, for an unmapped one the creation is requested
EnsureTopicBegin(user_id) ==
    /\ IF user_id \in DOMAIN user_topic_map
       THEN /\ returned' = returned \cup {<<user_id, user_topic_map[user_id]>>}
            /\ UNCHANGED pending
       ELSE /\ Len(pending) < MaxPending
            /\ pending' = Append(pending, [handler |-> "_ensure_topic", user |-> user_id])
            /\ UNCHANGED returned
    /\ UNCHANGED <<cfg_vars, topic_vars, forward_mode, last_op, write_failures, ev, timers, view>>

\* _ensure_topic from the return of create_forum_topic on
EnsureTopicResume(i, ok, w) ==
    /\ i \in DOMAIN pending
    /\ pending[i].handler = "_ensure_topic"
    /\ pending' = Without(pending, i)
    /\ IF ok
       THEN /\ forum_topics < MaxTopics
            /\ CanWrite(w)
            /\ SetTopics(RecordTopic(NewThread(Topics), pending[i].user, forum_topics + 1, w))
            /\ returned' = returned \cup {<<pending[i].user, forum_topics + 1>>}
            /\ CountWrite(TRUE, w)
       ELSE /\ w = "ok"
            /\ UNCHANGED <<topic_vars, returned, write_failures>>
    /\ UNCHANGED <<cfg_vars, forward_mode, last_op, ev, timers, view>>

\* the process stops and starts again: initialize() reads the file
Restart ==
    /\ pending' = <<>>
    /\ timers' = <<>>
    /\ user_topic_map' = LoadTopicMap(topic_map_file).u2t
    /\ topic_user_map' = LoadTopicMap(topic_map_file).t2u
    /\ UNCHANGED <<topic_map_file, forum_topics, returned>>
    /\ UNCHANGED <<cfg_vars, forward_mode, last_op, write_failures, ev, view>>

InitTopicMode ==
    /\ InitConfig
    /\ last_op = NoOp
    /\ write_failures = 0
    /\ forward_mode = "group"
    /\ InitTopics
    /\ ev = NoEvent
    /\ InitRun
    /\ Started

NextTopics ==
    /\ \/ \E user_id \in Senders : EnsureTopicBegin(user_id)
       \/ \E i \in 1..MaxPending, ok \in BOOLEAN, w \in WriteOutcomes : EnsureTopicResume(i, ok, w)
       \/ Restart
    /\ UNCHANGED life_vars

SpecTopics == InitTopicMode /\ [][NextTopics]_vars

(***************************************************************************)
(* Button presses as a state machine: a press is taken when no handler is  *)
(* running, its handler runs in one step and leaves in ev the query and    *)
(* the calls it made, and then returns.                                    *)
(***************************************************************************)
\* the payloads of the buttons the bot makes, and three it does not make
Payloads ==
    {BlockButton(c).callback_data : c \in Contacts}
    \cup {<<"already_blocked">>, <<"show_help">>, <<"close_block_list">>, PagePayload(0)}
    \cup {UserPayload(c, 0) : c \in Contacts}
    \cup {UnblockPayload(c, 0) : c \in Contacts}
    \cup {<<"block_user", ":", "x">>, <<"block_list", ":", "page", ":", "x">>, <<"noop">>}

\* who presses: the operator, and somebody else
Pressers == {ParseInt(ManagerChatId), 1}

\* the relayed message of contact c whose profile is user, as the mode sends it
Relayed(direct, c, user) ==
    [text |-> <<"h">> \o UserInfo(c, user),
     markup |-> IF direct THEN DirectKeyboard(c, user) ELSE TopicKeyboard(c)]

\* the messages that can carry a button of payload data: a relayed message
\* of the contact for block_user:<id>, one whose block button has been
\* marked for already_blocked, a message of the list view otherwise
Carriers(direct, data) ==
    IF StartsWith(data, <<"block_user", ":">>) /\ IsInt(AfterFirstColon(data))
    THEN {Relayed(direct, IntOf(AfterFirstColon(data)), user) :
             user \in {NoProfile, NamedProfile}}
    ELSE IF data = <<"already_blocked">>
    THEN {[text |-> Relayed(direct, c, user).text,
           markup |-> MarkBlocked(Relayed(direct, c, user).markup,
                                  BlockButton(c).callback_data)] :
             c \in Contacts, user \in {NoProfile, NamedProfile}}
    ELSE {[text |-> <<"#block_list">>, markup |-> <<CloseRow>>]}

\* the query of a press: in direct mode the message is in the chat of who
\* pressed, in topic mode in the group
CallbackQuery(direct, from, data, m) ==
    [from |-> from, data |-> data, chat |-> IF direct THEN from ELSE GroupChatId,
     text |-> m.text, markup |-> m.markup]

\* what a handler leaves in ev
PressEvent(q, calls, path, raised) ==
    [kind |-> "callback", from |-> q.from, data |-> q.data, chat |-> q.chat,
     text |-> q.text, markup |-> q.markup, calls |-> calls, path |-> path, raised |-> raised]

\* CallbackQueryHandler: the handler of the mode, as a whole
OnCallbackQuery(from, data, m, oks, w) ==
    LET direct == forward_mode = "private"
        q == CallbackQuery(direct, from, data, m)
    IN  /\ Idle
        /\ \E r \in {HandleCallback(direct, q, Cfg, oks, w)} :
               /\ w = "ok" \/ (write_failures < MaxWriteFailures
                               /\ r # HandleCallback(direct, q, Cfg, oks, "ok"))
               /\ SetCfg(r.cfg)
               /\ ev' = PressEvent(q, r.calls, r.path, r.raised)
        /\ CountWrite(TRUE, w)
        /\ UNCHANGED <<forward_mode, last_op>>

InitCallbacks == InitRelay

NextCallbacks ==
    /\ \/ \E from \in Pressers, data \in Payloads, oks \in CallOutcomes, w \in WriteOutcomes :
              \E m \in Carriers(forward_mode = "private", data) :
                  OnCallbackQuery(from, data, m, oks, w)
       \/ Return
    /\ UNCHANGED <<topic_vars, run_vars, view, life_vars>>

SpecCallbacks == InitCallbacks /\ [][NextCallbacks]_vars

(***************************************************************************)
(* Presses of the block button with the handlers interleaved: a handler is *)
(* suspended in its first query.answer() and other presses are taken       *)
(* meanwhile.  What follows the answer runs in one step: is_blocked and    *)
(* add_to_blocklist are not awaited.  The platform accepts the calls that  *)
(* follow the first answer.                                                *)
(***************************************************************************)
\* the platform accepts every call of the handler
Accepted == [i \in 1..MaxCalls |-> TRUE]

\* the handler of the mode up to its first await; the operator has pressed
\* block_user:<c> on the relayed message m of contact c
PressBegin(c, m, ok) ==
    LET direct == forward_mode = "private"
        q == CallbackQuery(direct, ParseInt(ManagerChatId), BlockButton(c).callback_data, m)
        oks == [i \in 1..MaxCalls |-> i # 1 \/ ok]
        b == IF direct THEN BotBegin(q, oks) ELSE CommonBegin(q, oks)
    IN  /\ IF b.suspended
           THEN /\ Len(pending) < MaxPending
                /\ pending' = Append(pending, [handler |-> "callback", q |-> q])
                /\ UNCHANGED ev
           ELSE /\ ev' = PressEvent(q, b.calls, b.path, FALSE)
                /\ UNCHANGED pending
        /\ UNCHANGED <<cfg_vars, topic_vars, forward_mode, last_op, write_failures,
                       returned, timers, view>>

\* the handler of the mode after its first query.answer() has returned
PressResume(i, oks, w) ==
    LET direct == forward_mode = "private"
        q == pending[i].q
        Finish(wo) == IF direct THEN BotFinish(q, Cfg, oks, wo)
                      ELSE CommonFinish(q, Cfg, oks, wo)
    IN  /\ i \in DOMAIN pending
        /\ pending[i].handler = "callback"
        /\ oks[1]
        /\ \E f \in {Finish(w)} :
               /\ w = "ok" \/ (write_failures < MaxWriteFailures /\ f # Finish("ok"))
               /\ SetCfg(f.cfg)
               /\ ev' = PressEvent(q, <<Answer(<<>>, q, TRUE)>> \o f.calls, f.path, f.raised)
        /\ pending' = Without(pending, i)
        /\ CountWrite(TRUE, w)
        /\ UNCHANGED <<topic_vars, forward_mode, last_op, returned, timers, view>>

InitPresses == InitRelay

NextPresses ==
    /\ \/ \E c \in UserIds, ok \in BOOLEAN :
              PressBegin(c, Relayed(forward_mode = "private", c, Profile(c)), ok)
       \/ \E i \in 1..MaxPending, w \in WriteOutcomes : PressResume(i, Accepted, w)
    /\ UNCHANGED life_vars

SpecPresses == InitPresses /\ [][NextPresses]_vars

(***************************************************************************)
(* The list view under the operator's presses: the blocklist holds         *)
(* MaxShown contacts to begin with, the operator turns the pages, opens    *)
(* details, unblocks and closes.                                           *)
(***************************************************************************)
\* the pages a button of the view can name: those of the first list, and
\* one past them
ViewPages == 0..((MaxShown + ItemsPerPage - 1) \div ItemsPerPage)

\* the contacts whose button is pressed: the last of the list, and one that
\* is not in the list
ViewUsers == {Len(GetBlocklist(Cfg)), Len(GetBlocklist(Cfg)) + 1} \ {0}

ViewPayloads ==
    {PagePayload(p) : p \in ViewPages}
    \cup {UserPayload(c, p) : c \in ViewUsers, p \in ViewPages}
    \cup {UnblockPayload(c, p) : c \in ViewUsers, p \in ViewPages}
    \cup {<<"close_block_list">>}

\* the message of the list view
ViewMessage == [text |-> <<"#block_list">>, markup |-> <<CloseRow>>]

OnViewPress(data, oks, w) ==
    OnCallbackQuery(ParseInt(ManagerChatId), data, ViewMessage, oks, w)

InitListView ==
    /\ blocklist_file = Some(JsonList(Listing(MaxShown)))
    /\ blocklist_data_cache = None
    /\ blocklist_cache = None
    /\ last_op = NoOp
    /\ write_failures = 0
    /\ forward_mode \in {"private", "group"}
    /\ InitTopics
    /\ ev = NoEvent
    /\ InitRun
    /\ Started

NextListView ==
    /\ \/ \E data \in ViewPayloads, oks \in CallOutcomes, w \in WriteOutcomes :
              OnViewPress(data, oks, w)
       \/ Return
    /\ UNCHANGED <<topic_vars, run_vars, view, life_vars>>

SpecListView == InitListView /\ [][NextListView]_vars

(***************************************************************************)
(* The relay with its commands: the updates of the relay, and the four     *)
(* commands, sent by the contacts and by the operator in a private chat.   *)
(***************************************************************************)
Command(chat, name) == Message(chat, <<name>>, {}, None, 0)

\* CommandHandler("start")
OnStart(chat, oks) ==
    Handle("command", Command(chat, "/start"), 0,
           HandleStart(forward_mode = "private", Command(chat, "/start"), Profile(chat),
                       oks, Cfg, Topics))

\* CommandHandler("help")
OnHelp(chat, oks) ==
    Handle("command", Command(chat, "/help"), 0,
           HandleHelp(forward_mode = "private", Command(chat, "/help"), oks, Cfg, Topics))

\* CommandHandler("status")
OnStatus(chat, oks) ==
    Handle("command", Command(chat, "/status"), 0,
           HandleStatus(forward_mode = "private", Command(chat, "/status"), oks, Cfg, Topics))

\* CommandHandler("block_list")
OnBlockList(chat, oks) ==
    Handle("command", Command(chat, "/block_list"), 0,
           HandleBlockList(forward_mode = "private", Command(chat, "/block_list"), oks,
                           Cfg, Topics))

InitCommands == InitRelay

NextCommands ==
    \/ NextRelay
    \/ /\ \/ \E chat \in Senders, oks \in CallOutcomes : OnStart(chat, oks)
          \/ \E chat \in Senders, oks \in CallOutcomes : OnHelp(chat, oks)
          \/ \E chat \in Senders, oks \in CallOutcomes : OnStatus(chat, oks)
          \/ \E chat \in Senders, oks \in CallOutcomes : OnBlockList(chat, oks)
       /\ UNCHANGED <<run_vars, view, life_vars>>

SpecCommands == InitCommands /\ [][NextCommands]_vars

(***************************************************************************)
(* Every handler under every outcome of its calls: the messages, the       *)
(* commands, the presses, and the task that deletes an acknowledgement     *)
(* ten seconds after it was sent.  The task is taken while the update that *)
(* created it is the last one handled.                                     *)
(***************************************************************************)
\* the acknowledgements of the last update that the platform accepted: the
\* handlers pass the message that reply_text returned to the deletion task
ConfirmMsgs == {i \in DOMAIN ev.calls : ev.calls[i].site = "#received" /\ ev.calls[i].ok}

\* delete_message_after_delay: the task sleeps, then deletes the message;
\* its except clause logs a deletion that raises
DeleteAfterDelay(message, ok) ==
    [calls |-> <<Call("delete_task", "delete", message.chat, 0, <<>>, <<>>, ok)>>,
     raised |-> FALSE]

\* the task of the acknowledgement runs
OnDeleteTask(ok) ==
    /\ ConfirmMsgs # {}
    /\ \A i \in DOMAIN ev.calls : ev.calls[i].site # "delete_task"
    /\ \E i \in ConfirmMsgs :
           \E r \in {DeleteAfterDelay(ev.calls[i], ok)} :
               ev' = [ev EXCEPT !.calls = @ \o r.calls, !.raised = @ \/ r.raised]
    /\ UNCHANGED <<cfg_vars, forward_mode, last_op, write_failures>>

InitHandlers == InitRelay

\* the presses of the buttons of one contact, and two malformed payloads
HandlerPayloads ==
    {BlockButton(1).callback_data, UserPayload(1, 0), UnblockPayload(1, 0), PagePayload(0),
     <<"already_blocked">>, <<"show_help">>, <<"close_block_list">>,
     <<"block_user", ":", "x">>, <<"block_list", ":", "page", ":", "x">>}

\* the operator and one contact send one text and one kind of media: what
\* varies is which call or which write fails

NextHandlers ==
    /\ \/ \E chat \in Pressers, text \in {<<"h">>}, oks \in CallOutcomes :
              \E re \in RepliesOf(chat) : OnMessage(chat, text, re, oks)
       \/ \E chat \in Pressers, caption \in {<<>>}, media \in {{"photo"}}, oks \in CallOutcomes :
              \E re \in RepliesOf(chat) : OnMedia(chat, caption, media, re, oks)
       \/ \E chat \in Pressers, text \in {<<"h">>}, oks \in CallOutcomes :
              OnUserText(chat, text, oks)
       \/ \E chat \in Pressers, caption \in {<<>>}, media \in {{"photo"}}, oks \in CallOutcomes :
              OnUserMedia(chat, caption, media, oks)
       \/ \E thread \in 0..(forum_topics + 1), text \in {<<"h">>}, media \in {{}, {"photo"}},
             oks \in CallOutcomes :
              OnGroupMessage(thread, text, media, oks)
       \/ \E chat \in Pressers, oks \in CallOutcomes : OnStart(chat, oks)
       \/ \E chat \in Pressers, oks \in CallOutcomes : OnHelp(chat, oks)
       \/ \E chat \in Pressers, oks \in CallOutcomes : OnStatus(chat, oks)
       \/ \E chat \in Pressers, oks \in CallOutcomes : OnBlockList(chat, oks)
       \/ /\ \E from \in Pressers, data \in HandlerPayloads, oks \in CallOutcomes,
                 w \in WriteOutcomes :
                  \E m \in Carriers(forward_mode = "private", data) :
                      OnCallbackQuery(from, data, m, oks, w)
          /\ UNCHANGED topic_vars
       \/ /\ \E ok \in BOOLEAN : OnDeleteTask(ok)
          /\ UNCHANGED topic_vars
       \/ Return
    /\ UNCHANGED <<run_vars, view, life_vars>>

SpecHandlers == InitHandlers /\ [][NextHandlers]_vars

(***************************************************************************)
(* Plugin initialisation as a state machine: the settings are any of the   *)
(* texts below, the hook runs, and the task it created starts the bot.     *)
(***************************************************************************)
Tokens == {<<>>, <<"t">>}
ManagerIds == {<<>>, ManagerChatId}
GroupIds == {<<>>, FormatSigned(GroupChatId), <<"x">>}
Modes == {<<>>, <<"private">>, <<"group">>, <<" ", "Group">>, <<"topic">>}

\* @after_setup: init_tg_bot
InitTgBot(built) ==
    /\ startup = "setup"
    /\ \E r \in {Setup(plugin_config, bot_instance, group_bot_instance, built)} :
           /\ bot_instance' = r.bot
           /\ group_bot_instance' = r.group
           /\ startup' = r.task
    /\ UNCHANGED plugin_config

\* run_background: start_bot or start_group_bot; what start raises is logged
RunBackground(built, ok) ==
    /\ startup \in {"private", "group"}
    /\ IF startup = "private"
       THEN /\ bot_instance' = Some(Start(Instance(bot_instance),
                                          BotInitialize(Instance(bot_instance),
                                                        plugin_config, built), ok))
            /\ UNCHANGED group_bot_instance
       ELSE /\ group_bot_instance' = Some(Start(Instance(group_bot_instance),
                                                GroupBotInitialize(Instance(group_bot_instance),
                                                                   plugin_config, built), ok))
            /\ UNCHANGED bot_instance
    /\ startup' = "done"
    /\ UNCHANGED plugin_config

InitStartup ==
    /\ plugin_config \in {PluginConfig(t, m, g, mode) :
                             t \in Tokens, m \in ManagerIds, g \in GroupIds, mode \in Modes}
    /\ bot_instance = None
    /\ group_bot_instance = None
    /\ startup = "setup"
    /\ InitConfig
    /\ last_op = NoOp
    /\ write_failures = 0
    /\ forward_mode = GetForwardMode(plugin_config)
    /\ InitTopics
    /\ ev = NoEvent
    /\ InitRun

NextStartup ==
    /\ \/ \E built \in BOOLEAN : InitTgBot(built)
       \/ \E built, ok \in BOOLEAN : RunBackground(built, ok)
    /\ UNCHANGED <<cfg_vars, topic_vars, forward_mode, last_op, write_failures, ev,
                   run_vars, view>>

SpecStartup == InitStartup /\ [][NextStartup]_vars

(***************************************************************************)
(* The blocklist file as the plugin finds it, and a process that stops     *)
(* during a save.  The file is any of a set of documents: texts that       *)
(* json.load rejects, values that are no list, lists of at most MaxItems   *)
(* items of every kind, and the same lists nested in a list of one.        *)
(***************************************************************************)
JsonValue(kind) == [json |-> kind]

\* the items of a list: two records, the second without a name, a record
\* without user_id, and three values that are no objects
Items ==
    {Entry(1, <<"a">>), [user_id |-> 2], [name |-> <<"a">>],
     JsonValue("number"), JsonValue("string"), JsonValue("null")}

ItemLists == UNION {[1..n -> Items] : n \in 0..MaxItems}

Documents ==
    {JsonValue("garbage"), JsonValue("number"), [name |-> <<"a">>]}
    \cup {JsonList(items) : items \in ItemLists}
    \cup {JsonList(<<JsonList(items)>>) : items \in ItemLists}

\* open(file, "w") empties the file and json.dump writes the text piece by
\* piece: until the last piece is written the file holds a text that
\* json.load rejects
Torn == JsonValue("garbage")

\* where the process stops in _save_blocklist_data
StopPoints == {"before_open", "writing", "closed"}

\* the file a save of s1.file leaves when the process stops at `at`, s1 being
\* the configuration after the save had it gone through; the plugin is set
\* up again with nothing cached
SaveStopped(s, s1, at) ==
    [file |-> IF at = "before_open" THEN s.file
              ELSE IF at = "writing" THEN Some(Torn)
              ELSE s1.file,
     data |-> None, ids |-> None]

\* the process stops in the save of add_to_blocklist
CrashInAdd(user_id, name, at) ==
    \E r \in {AddToBlocklist(Cfg, user_id, name, "ok")} :
        /\ r.ret
        /\ SetCfg(SaveStopped(Cfg, r.st, at))
        /\ Record("crash_add", user_id, name, FALSE)
        /\ UNCHANGED write_failures

\* the process stops in the save of remove_from_blocklist
CrashInRemove(user_id, at) ==
    \E r \in {RemoveFromBlocklist(Cfg, user_id, "ok")} :
        /\ r.ret
        /\ SetCfg(SaveStopped(Cfg, r.st, at))
        /\ Record("crash_remove", user_id, <<>>, FALSE)
        /\ UNCHANGED write_failures

InitStorage ==
    /\ blocklist_file \in {Some(doc) : doc \in Documents}
    /\ blocklist_data_cache = None
    /\ blocklist_cache = None
    /\ last_op = NoOp
    /\ write_failures = 0
    /\ forward_mode = "private"
    /\ InitTopics
    /\ ev = NoEvent
    /\ InitRun
    /\ Started

\* the saves either complete or are cut short by a stop of the process
NextStorage ==
    /\ \/ \E u \in UserIds, n \in Names : Add(u, n, "ok")
       \/ \E u \in UserIds : Remove(u, "ok")
       \/ Query
       \/ Reload
       \/ \E u \in UserIds, n \in Names, at \in StopPoints : CrashInAdd(u, n, at)
       \/ \E u \in UserIds, at \in StopPoints : CrashInRemove(u, at)
    /\ UNCHANGED <<forward_mode, topic_vars, ev, run_vars, view, life_vars>>

SpecStorage == InitStorage /\ [][NextStorage]_vars

(***************************************************************************)
(* The blocklist file written by another program while the plugin runs,    *)
(* and reload().                                                           *)
(***************************************************************************)
\* the lists another program writes: some of the contacts, once each, in
\* any order and without names
EditedLists ==
    {[i \in DOMAIN ids |-> Entry(ids[i], <<>>)] :
        ids \in {seq \in UNION {[1..n -> UserIds] : n \in 0..MaxUser} :
                    \A i, j \in DOMAIN seq : seq[i] = seq[j] => i = j}}

\* the file is written from outside: the configuration object is not told
ExternalWrite(data) ==
    /\ blocklist_file # Some(JsonList(data))
    /\ blocklist_file' = Some(JsonList(data))
    /\ UNCHANGED <<blocklist_data_cache, blocklist_cache, last_op, write_failures>>

\* get_blocklist(): it fills the cache of the entries
CallGetBlocklist ==
    /\ SetCfg(LoadBlocklistData(Cfg))
    /\ Record("get_blocklist", 0, <<>>, FALSE)
    /\ UNCHANGED write_failures

InitReload == InitBlocklist

NextReload ==
    /\ \/ \E u \in UserIds, w \in WriteOutcomes : Add(u, <<>>, w)
       \/ \E u \in UserIds, w \in WriteOutcomes : Remove(u, w)
       \/ Query
       \/ CallGetBlocklist
       \/ Reload
       \/ \E data \in EditedLists : ExternalWrite(data)
    /\ UNCHANGED <<forward_mode, topic_vars, ev, run_vars, view, life_vars>>

SpecReload == InitReload /\ [][NextReload]_vars

(***************************************************************************)
(* The relay of media: messages that carry up to MaxKinds of the five      *)
(* payloads, from a contact and from the operator, in both modes, and      *)
(* messages that carry none.                                               *)
(***************************************************************************)
MediaSets ==
    {media \in SUBSET {"photo", "document", "video", "audio", "voice"} :
        Cardinality(media) \in 1..MaxKinds}

MediaCaptions == {<<>>, <<"h">>}

InitMedia == InitRelay

NextMedia ==
    /\ \/ \E chat \in Senders, caption \in MediaCaptions, media \in MediaSets,
             oks \in CallOutcomes :
              \E re \in RepliesOf(chat) : OnMedia(chat, caption, media, re, oks)
       \/ \E chat \in Senders, oks \in CallOutcomes :
              \E re \in RepliesOf(chat) : OnMessage(chat, <<"h">>, re, oks)
       \/ \E chat \in Senders, caption \in MediaCaptions, media \in MediaSets,
             oks \in CallOutcomes :
              OnUserMedia(chat, caption, media, oks)
       \/ \E chat \in Senders, oks \in CallOutcomes : OnUserText(chat, <<"h">>, oks)
       \/ \E thread \in 0..(forum_topics + 1), text \in MediaCaptions,
             media \in MediaSets \cup {{}}, oks \in CallOutcomes :
              OnGroupMessage(thread, text, media, oks)
       \/ Return
    /\ UNCHANGED <<run_vars, view, life_vars>>

SpecMedia == InitMedia /\ [][NextMedia]_vars

(***************************************************************************)
(* The deletion of the acknowledgements.  A task of timers is              *)
(* [message, at, calls, logged]: the acknowledgement it is to delete,      *)
(* where the coroutine is ("sleep": suspended at asyncio.sleep, "delete":  *)
(* the delay has elapsed, "done": finished), the calls it has made and     *)
(* whether its except clause has logged.                                   *)
(***************************************************************************)
\* delete_message_after_delay(message): asyncio.create_task, which returns
\* at once; the task is suspended at asyncio.sleep(delay)
DeleteMessageAfterDelay(tasks, message) ==
    Append(tasks, [message |-> message, at |-> "sleep", calls |-> <<>>, logged |-> FALSE])

\* the acknowledgements among calls that the platform has accepted
Acknowledgements(calls) == SelectSeq(calls, LAMBDA c : c.site = "#received" /\ c.ok)

\* the tasks after a handler that has made calls: one more for the
\* acknowledgement, whose message is numbered in the order of creation
Schedule(tasks, calls) ==
    IF Acknowledgements(calls) = <<>> THEN tasks
    ELSE DeleteMessageAfterDelay(tasks, [id |-> Len(tasks) + 1,
                                         chat |-> Acknowledgements(calls)[1].chat])

\* a handler that acknowledges handles an update of a contact
OnAcknowledged(chat, media, oks) ==
    /\ Len(timers) < MaxAcks
    /\ \/ media = {} /\ OnMessage(chat, <<"h">>, NoReply, oks)
       \/ media # {} /\ OnMedia(chat, <<>>, media, NoReply, oks)
       \/ media = {} /\ OnUserText(chat, <<"h">>, oks)
       \/ media # {} /\ OnUserMedia(chat, <<>>, media, oks)
    /\ timers' = Schedule(timers, ev'.calls)
    /\ UNCHANGED <<pending, returned, view, life_vars>>

\* the handler returns to the event loop
ReturnToLoop == Return /\ UNCHANGED <<run_vars, view, life_vars>>

\* asyncio.sleep(delay) of task i returns: the tasks sleep the same delay,
\* so they wake in the order of their creation
DelayElapses(i) ==
    /\ i \in DOMAIN timers
    /\ timers[i].at = "sleep"
    /\ \A j \in 1..(i - 1) : timers[j].at # "sleep"
    /\ timers' = [timers EXCEPT ![i].at = "delete"]
    /\ UNCHANGED <<cfg_vars, last_op, write_failures, forward_mode, topic_vars, ev,
                   pending, returned, view, life_vars>>

\* a variant that does not wait for the delay
TaskDeletesEarly(i, ok) ==
    /\ i \in DOMAIN timers
    /\ timers[i].at \in {"sleep", "delete"}
    /\ \E r \in {DeleteAfterDelay(timers[i].message, ok)} :
           timers' = [timers EXCEPT ![i] = [@ EXCEPT !.at = "done",
                                                     !.calls = @ \o r.calls,
                                                     !.logged = ~ok]]
    /\ UNCHANGED <<cfg_vars, last_op, write_failures, forward_mode, topic_vars, ev,
                   pending, returned, view, life_vars>>

\* task i calls message.delete(); a call that raises is logged by the
\* except clause of the task, which ends either way
TaskDeletes(i, ok) ==
    /\ i \in DOMAIN timers
    /\ timers[i].at = "delete"
    /\ \E r \in {DeleteAfterDelay(timers[i].message, ok)} :
           timers' = [timers EXCEPT ![i] = [@ EXCEPT !.at = "done",
                                                     !.calls = @ \o r.calls,
                                                     !.logged = ~ok]]
    /\ UNCHANGED <<cfg_vars, last_op, write_failures, forward_mode, topic_vars, ev,
                   pending, returned, view, life_vars>>

InitDeletion == InitRelay

NextDeletion ==
    \/ \E chat \in Contacts, media \in {{}, {"photo"}}, oks \in CallOutcomes :
           OnAcknowledged(chat, media, oks)
    \/ ReturnToLoop
    \/ \E i \in 1..MaxAcks : DelayElapses(i)
    \/ \E i \in 1..MaxAcks, ok \in BOOLEAN : TaskDeletes(i, ok)

SpecDeletion == InitDeletion /\ [][NextDeletion]_vars

\* the event loop runs while the process does: a timer that is due fires,
\* and a task that is ready is run
SpecDeletionLive ==
    /\ SpecDeletion
    /\ \A i \in 1..MaxAcks : WF_vars(DelayElapses(i))
    /\ \A i \in 1..MaxAcks : WF_vars(\E ok \in BOOLEAN : TaskDeletes(i, ok))

(***************************************************************************)
(* Properties of the relay, read off ev: the update handled last and the   *)
(* outbound calls its handler made.                                        *)
(***************************************************************************)
\* where the messages of the contacts are relayed to
OperatorDestination ==
    IF forward_mode = "private" THEN ParseInt(ManagerChatId) ELSE GroupChatId

IsSend(call) == call.api \notin {"reply_text", "create_forum_topic"}

RelaySends == {i \in DOMAIN ev.calls :
                  IsSend(ev.calls[i]) /\ ev.calls[i].chat = OperatorDestination}

Acks == {i \in DOMAIN ev.calls :
            /\ ev.calls[i].api = "reply_text"
            /\ ev.calls[i].chat = ev.chat
            /\ ev.calls[i].text = <<"#received">>}

PrivateUpdate == ev.kind \in {"text", "media"}

FromContact == PrivateUpdate /\ ~IsManager(ev.chat)

HasKeyword(text) == \E keyword \in BlockKeywords : Contains(Lower(text), Lower(keyword))

Unfiltered == ~IsBlocked(Cfg, ev.chat) /\ ~HasKeyword(ev.text)

TopicCreateFailed ==
    \E i \in DOMAIN ev.calls :
        ev.calls[i].api = "create_forum_topic" /\ ~ev.calls[i].ok

\* the text of call i is the original text followed by a block that holds the
\* id label and the sender's id, and a button of it carries block_user:<id>
IsEnvelope(i) ==
    LET call == ev.calls[i]
        n == Len(ev.text)
    IN  /\ Len(call.text) > n
        /\ SubSeq(call.text, 1, n) = ev.text
        /\ Contains(SubSeq(call.text, n + 1, Len(call.text)),
                    <<"L", " ">> \o FormatInt(ev.chat))
        /\ \E row \in DOMAIN call.markup : \E b \in DOMAIN call.markup[row] :
               call.markup[row][b].callback_data
                   = <<"block_user", ":">> \o FormatInt(ev.chat)

\* C1: in both modes, a text or media message from a non-operator contact who
\* is blocked when it is handled, or whose text or caption contains a
\* configured keyword in any case, causes no outbound call at all: no relay,
\* no sub-channel creation, no reply to the sender.
C1_FilteredSilently ==
    FromContact /\ (IsBlocked(Cfg, ev.chat) \/ HasKeyword(ev.text)) => ev.calls = <<>>

C1_Witness ==
    /\ FromContact
    /\ forward_mode = "group"
    /\ ev.kind = "media"
    /\ IsBlocked(Cfg, ev.chat)
    /\ ~HasKeyword(ev.text)
    /\ ev.calls = <<>>

\* C2 as stated: for an unfiltered text message of a non-operator contact c
\* the handler makes exactly one send to the operator destination, with the
\* original text followed by the metadata block with c's id and with a button
\* block_user:c, and acknowledges to c only after that send.
C2_AsStated ==
    FromContact /\ ev.kind = "text" /\ Unfiltered
        => /\ Cardinality(RelaySends) = 1
           /\ \A i \in RelaySends : IsEnvelope(i) /\ \A j \in Acks : i < j

\* C2: as stated, except in topic mode when c has no sub-channel and the
\* creation of one fails: then nothing is sent to the operator destination,
\* nothing is acknowledged, and c is told that the creation failed.
C2_RelayOnce ==
    FromContact /\ ev.kind = "text" /\ Unfiltered
        => IF TopicCreateFailed
           THEN /\ RelaySends = {}
                /\ Acks = {}
                /\ \E i \in DOMAIN ev.calls :
                       /\ ev.calls[i].api = "reply_text"
                       /\ ev.calls[i].chat = ev.chat
                       /\ ev.calls[i].text = <<"#topic_failed">>
           ELSE /\ Cardinality(RelaySends) = 1
                /\ \A i \in RelaySends : IsEnvelope(i) /\ \A j \in Acks : i < j

C2_Witness ==
    /\ FromContact
    /\ ev.kind = "text"
    /\ Unfiltered
    /\ ~TopicCreateFailed
    /\ Cardinality(RelaySends) = 1
    /\ \E i \in RelaySends : ev.calls[i].ok /\ \E j \in Acks : i < j

\* C3: direct mode round trip: the id extracted from the relayed message of
\* contact c (the text or caption followed by the metadata block of c) is c's
\* id, and the operator's reply to the relayed message of c is delivered to c
\* and to nobody else.
C3_RoundTrip ==
    /\ forward_mode = "private" /\ FromContact
           => \A i \in RelaySends :
                  ExtractUserIdFromMessage(ev.calls[i].text) = Some(ev.chat)
    /\ forward_mode = "private" /\ PrivateUpdate /\ IsManager(ev.chat) /\ ev.origin # 0
           => \A i \in DOMAIN ev.calls :
                  IsSend(ev.calls[i]) => ev.calls[i].chat = ev.origin

\* C4: in both modes a private message of the operator goes to the
\* operator-reply path: it is not filtered, not relayed to the operator
\* destination and not acknowledged like a contact's message.
C4_OperatorPath ==
    PrivateUpdate /\ IsManager(ev.chat)
        => /\ ev.path \notin {"blocked", "keyword", "relayed", "topic_failed"}
           /\ RelaySends = {}
           /\ Acks = {}

\* C5: in either mode, for text and for media, when the delivery of a
\* contact's message to the operator destination fails, no acknowledgement is
\* sent to the contact.
C5_AckOnlyIfDelivered ==
    FromContact /\ (\E i \in RelaySends : ~ev.calls[i].ok) => Acks = {}

\* C6: in direct mode, when a message of the operator (text or media) is not
\* a reply, or replies to a message without text or caption, or to one
\* without the id label, the operator gets an explanatory reply and nothing
\* is delivered to any contact.
C6_UncorrelatedExplained ==
    /\ forward_mode = "private"
    /\ PrivateUpdate
    /\ IsManager(ev.chat)
    /\ \/ ev.reply_to = None
       \/ Val(ev.reply_to) = <<>>
       \/ ExtractUserIdFromMessage(Val(ev.reply_to)) = None
    => /\ \E i \in DOMAIN ev.calls :
              ev.calls[i].api = "reply_text" /\ ev.calls[i].chat = ev.chat
       /\ \A i \in DOMAIN ev.calls : ~IsSend(ev.calls[i])

\* an operator reply whose target is resolved: in direct mode by the id label
\* of the replied-to message, in topic mode by the thread of the message
IsResolvedReply ==
    \/ /\ forward_mode = "private"
       /\ PrivateUpdate
       /\ IsManager(ev.chat)
       /\ ev.reply_to # None
       /\ ExtractUserIdFromMessage(Val(ev.reply_to)) # None
    \/ /\ forward_mode = "group"
       /\ ev.kind = "group"
       /\ ~(ev.media = {} /\ ev.text # <<>> /\ Head(ev.text) = "/")
       /\ ev.thread \in DOMAIN topic_user_map

ResolvedTarget ==
    IF forward_mode = "private"
    THEN Val(ExtractUserIdFromMessage(Val(ev.reply_to)))
    ELSE topic_user_map[ev.thread]

\* C7: in both modes an operator reply with a resolved target and a text or
\* media payload leads to exactly one delivery attempt to that contact and
\* then to exactly one report to the operator: a success summary when the
\* delivery succeeded, a failure notice when it failed.
C7_DeliveryReported ==
    IsResolvedReply
        => /\ Len(ev.calls) >= 2
           /\ IsSend(ev.calls[1])
           /\ ev.calls[1].chat = ResolvedTarget
           /\ \A i \in DOMAIN ev.calls : IsSend(ev.calls[i]) => i = 1
           /\ ev.calls[2].api = "reply_text"
           /\ ev.calls[2].chat = ev.chat
           /\ ev.calls[2].text \in (IF ev.calls[1].ok
                                    THEN {<<"#sent">>}
                                    ELSE {<<"#send_failed">>, <<"#forward_failed">>})
           /\ Len(ev.calls) > 2 => ~ev.calls[2].ok

(***************************************************************************)
(* Properties of the blocklist.                                            *)
(***************************************************************************)
\* the entries of a list, without their order and the white space around names
Norm(data) == {Entry(data[i].user_id, Strip(data[i].name)) : i \in 1..Len(data)}

NameOf(data, user_id) == data[FirstIndex(data, user_id)].name

C9_AddIdempotent ==
    last_op.op = "add" =>
        \A n2 \in {last_op.name, <<>>}, w \in WriteOutcomes :
            LET r == AddToBlocklist(Cfg, last_op.user_id, n2, w)
            IN  /\ ~r.ret
                /\ r.st.data = blocklist_data_cache
                /\ r.st.file = blocklist_file

\* the three outcomes of add(u, n) in state s; needs_write: the second and the
\* third are required only of a call whose write of the file went through
AddOutcome(s, u, n, w, needs_write) ==
    LET s1 == LoadBlocklistData(s)
        data == Val(s1.data)
        r == AddToBlocklist(s, u, n, w)
        post == Val(r.st.data)
    IN  IF HasId(data, u) /\ (n = <<>> \/ NameOf(data, u) = n)
        THEN /\ ~r.ret
             /\ r.st.data = s1.data
             /\ r.st.file = s.file
        ELSE IF needs_write /\ w # "ok"
        THEN ~r.ret
        ELSE IF HasId(data, u)
        THEN /\ r.ret
             /\ Len(post) = Len(data)
             /\ Norm(post) = (Norm(data) \ {Entry(u, Strip(NameOf(data, u)))})
                                 \cup {Entry(u, Strip(n))}
        ELSE /\ r.ret
             /\ Len(post) = Len(data) + 1
             /\ Norm(post) = Norm(data) \cup {Entry(u, Strip(n))}

\* C10 as stated: every add(c, name) has one of the three outcomes
C10_AsStated ==
    \A u \in UserIds, n \in Names, w \in WriteOutcomes :
        AddOutcome(Cfg, u, n, w, FALSE)

\* C10 amended: an add(c, name) whose write of the file does not fail has one
\* of the three outcomes, the entries other than c's keeping their id and
\* their name (up to white space around it); one whose write fails returns
\* false
C10_AddOutcomes ==
    \A u \in UserIds, n \in Names, w \in WriteOutcomes :
        AddOutcome(Cfg, u, n, w, TRUE)

\* an add has just replaced the name of an entry, another entry being there
C10_Witness ==
    /\ last_op.op = "add"
    /\ last_op.had
    /\ last_op.ret
    /\ Len(GetBlocklist(Cfg)) > 1

\* C11: when the write of the file fails during add or remove, the call
\* returns false and the cache is what it was before the call: the list view
\* and is_blocked answer as they did before it
C11_FailedWriteKeepsCache ==
    [][write_failures' = write_failures + 1
           => /\ ~last_op'.ret
              /\ GetBlocklist(Cfg)' = GetBlocklist(Cfg)
              /\ \A v \in UserIds : IsBlocked(Cfg, v)' = IsBlocked(Cfg, v)]_vars

\* each id at most once, in ascending order of the ids
IsAscending(data) ==
    \A i, j \in 1..Len(data) : i < j => data[i].user_id < data[j].user_id

\* C12: in every reachable state the collection the list view pages over
\* holds each id at most once, in ascending order of the ids, and so does
\* every version of the file a save has written
C12_ListAscending ==
    /\ IsAscending(GetBlocklist(Cfg))
    /\ blocklist_file # None => IsAscending(ParseFile(blocklist_file))

\* ceil(n / ItemsPerPage), for n > 0
PagesOf(n) == CHOOSE k \in 1..n : ItemsPerPage * (k - 1) < n /\ n <= ItemsPerPage * k

\* C13: for every non-empty blocklist of size s and every requested page p,
\* negative and too large ones included, the list view renders page
\* max(0, min(p, ceil(s/8)-1)) of ceil(s/8) pages and shows exactly the
\* entries at positions 8*page .. min(8*page+8, s)-1; the direct-mode renderer
\* and the shared renderer compute the same page and items.
C13_Paging ==
    view.renderer # "none" /\ view.blocklist # <<>> =>
        LET size == Len(view.blocklist)
            total == PagesOf(size)
            page == Max(0, Min(view.arg, total - 1))
            last == Min(ItemsPerPage * page + ItemsPerPage, size)
        IN  /\ view.out.kind = "list"
            /\ view.out.page = page
            /\ view.out.total_pages = total
            /\ Len(view.out.items) = last - ItemsPerPage * page
            /\ \A k \in 1..Len(view.out.items) :
                   view.out.items[k] = view.blocklist[ItemsPerPage * page + k]
            /\ BotShowBlockList(view.blocklist, view.arg)
                   = ShowBlockList(view.blocklist, view.arg)

\* the direct-mode renderer has clamped a negative page of a list of three
\* pages, the shared one a page past the last
C13_Witness ==
    /\ Len(view.blocklist) = 2 * ItemsPerPage + 1
    /\ \/ view.renderer = "direct" /\ view.arg < 0 /\ view.out.page = 0
       \/ view.renderer = "shared" /\ view.arg > 2 /\ view.out.page = 2
    /\ Len(view.out.items) > 0

CreateCalls == {i \in DOMAIN ev.calls : ev.calls[i].api = "create_forum_topic"}

\* C17: when create_forum_topic fails, _ensure_topic returns None, neither
\* map nor the topic map file changes, the sender gets the 'try again' reply,
\* and the handler makes no second creation attempt and no relay.
C17_CreateFailureCommitsNothing ==
    [][Idle /\ TopicCreateFailed'
           => /\ UNCHANGED <<user_topic_map, topic_user_map, topic_map_file>>
              /\ ev'.path = "topic_failed"
              /\ Cardinality(CreateCalls') = 1
              /\ RelaySends' = {}
              /\ \E i \in DOMAIN ev'.calls :
                     /\ ev'.calls[i].api = "reply_text"
                     /\ ev'.calls[i].chat = ev'.chat
                     /\ ev'.calls[i].text = <<"#topic_failed">>]_vars

C17_Witness ==
    /\ TopicCreateFailed
    /\ FromContact
    /\ ev.kind = "media"
    /\ ev.chat \notin DOMAIN user_topic_map

\* the two maps are inverse of each other
AreInverse(u2t, t2u) ==
    /\ \A c \in DOMAIN u2t : u2t[c] \in DOMAIN t2u /\ t2u[u2t[c]] = c
    /\ \A h \in DOMAIN t2u : t2u[h] \in DOMAIN u2t /\ u2t[t2u[h]] = h

C16_EnsureIdempotent ==
    \A p \in returned :
        /\ TopicUser(Topics, p[2]) = Some(p[1])
        /\ \A ok \in BOOLEAN, w \in WriteOutcomes :
               LET e == EnsureTopic(Topics, p[1], NoProfile, ok, w)
               IN  e.thread = Some(p[2]) /\ e.calls = <<>>

\* C18: every pair _ensure_topic has returned is durable: it stays in the
\* maps as it is, and the topic map file holds it, so that a restart resolves
\* the contact to the same thread and creates none.
C18_PairsDurable ==
    \A p \in returned :
        /\ p[1] \in DOMAIN user_topic_map /\ user_topic_map[p[1]] = p[2]
        /\ LET m == LoadTopicMap(topic_map_file)
           IN  p[1] \in DOMAIN m.u2t /\ m.u2t[p[1]] = p[2]

(***************************************************************************)
(* Properties of the button presses.                                       *)
(***************************************************************************)
IsPress == ev.kind = "callback"

\* C19: in both callback handlers and for every payload, a press by anyone
\* other than the operator is answered with the permission-denied
\* acknowledgement and changes nothing: the blocklist is as it was and no
\* message is edited, sent or deleted.
C19_NonOperatorDenied ==
    [][Idle /\ IsPress' /\ ~IsManager(ev'.from)
           => /\ ev'.calls # <<>>
              /\ \A i \in DOMAIN ev'.calls : ev'.calls[i].api = "answer"
              /\ ev'.calls[1].text = <<"#denied">>
              /\ GetBlocklist(Cfg)' = GetBlocklist(Cfg)
              /\ blocklist_file' = blocklist_file]_vars

\* the contact of the block_user payload pressed last
PressedId == IntOf(AfterFirstColon(ev.data))

EntriesOf(data, user_id) == {i \in DOMAIN data : data[i].user_id = user_id}

AnswerTexts == {ev.calls[i].text : i \in {j \in DOMAIN ev.calls : ev.calls[j].api = "answer"}}

AllAccepted == \A i \in DOMAIN ev.calls : ev.calls[i].ok

\* C20: when the operator's press of block_user:c has been handled,
\* is_blocked(c) is true and the blocklist holds exactly one entry for c; a
\* press of the same payload handled after another one, in whatever order
\* the two were taken, is answered "already blocked" and not with an error.
C20_BlockPressIdempotent ==
    [][Len(pending') < Len(pending)
           => /\ IsBlocked(Cfg, PressedId)'
              /\ Cardinality(EntriesOf(GetBlocklist(Cfg), PressedId))' = 1
              /\ IsPress /\ ev.path # "failed" /\ ev.data = ev'.data /\ AllAccepted'
                     => AnswerTexts' = {<<>>, <<"#already_blocked">>}]_vars

(***************************************************************************)
(* Properties of the list view.                                            *)
(***************************************************************************)
\* the operator has pressed unblock_user:<id>:page:<n>
UnblockPressed ==
    /\ IsPress
    /\ IsManager(ev.from)
    /\ StartsWith(ev.data, <<"unblock_user", ":">>)
    /\ Len(Split(ev.data)) = 4
    /\ IsInt(Split(ev.data)[2]) /\ IsInt(Split(ev.data)[4])

UnblockId == IntOf(Split(ev.data)[2])

UnblockPage == IntOf(Split(ev.data)[4])

\* the calls among calls that show a view
ViewCallsOf(calls) == {i \in DOMAIN calls : calls[i].api \in {"edit_text", "reply_text"}}

\* call shows page `page` of blocklist, clamped to the pages it has; an
\* empty blocklist is shown by the text that says so
ShowsList(call, blocklist, page) ==
    IF blocklist = <<>> THEN call.text = <<"#empty_list">>
    ELSE \E total \in {(Len(blocklist) + ItemsPerPage - 1) \div ItemsPerPage} :
         \E shown \in {Max(0, Min(page, total - 1))} :
         \E v \in {Rendered(blocklist, shown, total)} :
             /\ call.text = ListText(blocklist, v)
             /\ call.markup = ListKeyboard(v)

\* the toast of a successful unblock has been accepted by the platform
ToastAccepted(calls) ==
    \E i \in DOMAIN calls :
        calls[i].api = "answer" /\ calls[i].text = <<"#unblocked">> /\ calls[i].ok

HasToast(calls, text) ==
    \E i \in DOMAIN calls : calls[i].api = "answer" /\ calls[i].text = text

\* what C21 says of a press e of unblock_user:c:page:n that found the list
\* before and left the list after and the id set ids; always: the list is
\* rendered whether the toast has been accepted or not
UnblockOutcome(e, c, n, before, after, ids, always) ==
    /\ HasId(before, c) /\ ~HasId(after, c)
           => /\ c \notin ids
              /\ IF always \/ ToastAccepted(e.calls)
                 THEN /\ ViewCallsOf(e.calls) # {}
                      /\ \A i \in ViewCallsOf(e.calls) : ShowsList(e.calls[i], after, n)
                 ELSE ViewCallsOf(e.calls) = {}
    /\ e.path = "unblock_failed"
           => /\ HasToast(e.calls, <<"#unblock_failed">>)
              /\ after = before
              /\ ViewCallsOf(e.calls) = {}

\* C21 as stated: when the operator presses unblock_user:c:page:n and
\* remove(c) succeeds, c is no longer blocked and the list of page n, clamped
\* against the shrunk list, is rendered; when remove(c) fails, a failure
\* toast is shown, the blocklist is unchanged and no view is rendered.
C21_AsStated ==
    [][Idle /\ UnblockPressed'
           => /\ \A before \in {GetBlocklist(Cfg)}, after \in {GetBlocklist(Cfg)'},
                    ids \in {Val(LoadBlocklist(Cfg).ids)'} :
                      UnblockOutcome(ev', UnblockId', UnblockPage', before, after, ids, TRUE)
              /\ ev'.path = "unblock_failed" => blocklist_file' = blocklist_file]_vars

\* C21: as stated, except that the list is rendered only when the platform
\* has accepted the toast of the successful unblock; when that answer raises
\* the contact is unblocked and nothing is rendered.
C21_Unblock ==
    [][Idle /\ UnblockPressed'
           => /\ \A before \in {GetBlocklist(Cfg)}, after \in {GetBlocklist(Cfg)'},
                    ids \in {Val(LoadBlocklist(Cfg).ids)'} :
                      UnblockOutcome(ev', UnblockId', UnblockPage', before, after, ids, FALSE)
              /\ ev'.path = "unblock_failed" => blocklist_file' = blocklist_file]_vars

\* the last entry of the second page has been unblocked from page 1 and the
\* first page, the only one left, is shown
C21_Witness ==
    /\ UnblockPressed
    /\ UnblockPage = 1
    /\ Len(GetBlocklist(Cfg)) = ItemsPerPage
    /\ ~HasId(GetBlocklist(Cfg), UnblockId)
    /\ ToastAccepted(ev.calls)
    /\ \E i \in ViewCallsOf(ev.calls) :
           /\ ShowsList(ev.calls[i], GetBlocklist(Cfg), UnblockPage)
           /\ ev.calls[i].text = ListText(GetBlocklist(Cfg),
                                          Rendered(GetBlocklist(Cfg), 0, 1))

(***************************************************************************)
(* Properties of the payloads.                                             *)
(***************************************************************************)
IsNumber(field) == field # <<>> /\ \A i \in DOMAIN field : IsDigit(field[i])

\* the payload grammar: block_user:<id>, already_blocked, show_help,
\* close_block_list, block_list:page:<n>, block_list:user:<id>:page:<n>,
\* unblock_user:<id>:page:<n>
WellFormed(data) ==
    \E parts \in {Split(data)} :
        \/ data \in {<<"already_blocked">>, <<"show_help">>, <<"close_block_list">>}
        \/ Len(parts) = 2 /\ parts[1] = <<"block_user">> /\ IsNumber(parts[2])
        \/ /\ Len(parts) = 3
           /\ parts[1] = <<"block_list">> /\ parts[2] = <<"page">> /\ IsNumber(parts[3])
        \/ /\ Len(parts) = 5
           /\ parts[1] = <<"block_list">> /\ parts[2] = <<"user">> /\ IsNumber(parts[3])
           /\ parts[4] = <<"page">> /\ IsNumber(parts[5])
        \/ /\ Len(parts) = 4
           /\ parts[1] = <<"unblock_user">> /\ IsNumber(parts[2])
           /\ parts[3] = <<"page">> /\ IsNumber(parts[4])

\* C22: a payload that does not match the grammar, pressed by the operator,
\* is ignored: the blocklist does not change, no view is rendered, and the
\* operator is shown no error acknowledgement or toast.  With every call
\* accepted by the platform, the handler answers the query without a text
\* and does nothing else.
C22_MalformedIgnored ==
    [][Idle /\ IsPress' /\ IsManager(ev'.from) /\ ~WellFormed(ev'.data) /\ AllAccepted'
           => /\ GetBlocklist(Cfg)' = GetBlocklist(Cfg)
              /\ blocklist_file' = blocklist_file
              /\ \A i \in DOMAIN ev'.calls :
                     ev'.calls[i].api = "answer" /\ ev'.calls[i].text = <<>>]_vars

(***************************************************************************)
(* Properties of the failed relay sends.  _notify_manager and              *)
(* _forward_media_to_manager catch every exception alike and never read    *)
(* its class: a failed call stands for a failure of any class, the one the *)
(* platform raises for a privacy-restricted contact included.              *)
(***************************************************************************)
FailedRelaySends == {i \in RelaySends : ~ev.calls[i].ok}

\* the keyboard of a relayed message without the button that opens the
\* contact's profile, the block button kept
WithoutContactButton(chat_id) == <<<<BlockButton(chat_id)>>>>

\* C23: direct mode: when the send that relays a contact's message to the
\* operator fails because the contact is privacy-restricted, the send is made
\* once more, with the same text and without the button that references the
\* contact, the block button kept; a failed retry is not retried.
C23_PrivacyRetry ==
    forward_mode = "private" /\ FromContact /\ FailedRelaySends # {}
        => /\ Cardinality(RelaySends) = 2
           /\ \E i \in FailedRelaySends : \E j \in RelaySends :
                  /\ i < j
                  /\ ev.calls[j].text = ev.calls[i].text
                  /\ ev.calls[j].markup = WithoutContactButton(ev.chat)

(***************************************************************************)
(* Properties of the commands.                                             *)
(***************************************************************************)
IsCommand == ev.kind = "command"

\* the calls that reach the operator: to the operator's chat or to the group
ToOperator == {i \in DOMAIN ev.calls :
                  ev.calls[i].chat \in {ParseInt(ManagerChatId), GroupChatId}}

\* C24: a text, a media message or a command, /start included, of a contact
\* who is blocked when it is handled causes no outbound call to the operator.
C24_BlockedNeverReaches ==
    (PrivateUpdate \/ IsCommand) /\ ~IsManager(ev.chat) /\ IsBlocked(Cfg, ev.chat)
        => ToOperator = {}

OperatorCommands == {<<"/help">>, <<"/status">>, <<"/block_list">>}

\* C27: in both modes, /status, /help and /block_list sent by anyone but the
\* operator are given no reply, cause no outbound call, and change nothing of
\* the blocklist, of its caches or of the topics.
C27_OperatorCommandsOnly ==
    [][Idle /\ IsCommand' /\ ev'.text \in OperatorCommands /\ ~IsManager(ev'.chat)
           => /\ ev'.calls = <<>>
              /\ UNCHANGED <<cfg_vars, topic_vars, forward_mode, last_op, write_failures,
                             run_vars, view, life_vars>>]_vars

C27_Witness ==
    /\ IsCommand
    /\ ev.text = <<"/block_list">>
    /\ ~IsManager(ev.chat)
    /\ forward_mode = "group"
    /\ GetBlocklist(Cfg) # <<>>
    /\ ev.calls = <<>>
    /\ ev.path = "not_manager"

(***************************************************************************)
(* Properties of plugin initialisation.                                    *)
(***************************************************************************)
Running(inst) == inst # None /\ Val(inst).running

\* a task that starts a bot has been created
TaskCreated == startup \in {"private", "group"}

\* C25: in either mode, when the operator id or the bot credential is
\* missing from the settings, no task that starts a bot is created and no bot
\* ever runs or polls.
C25_InvalidNeverStarts ==
    plugin_config.manager_chatid = <<>> \/ plugin_config.tgbot_token = <<>>
        => /\ ~TaskCreated
           /\ ~Running(bot_instance)
           /\ ~Running(group_bot_instance)

\* the mode the setting names: "group" when it is that word in any case and
\* with white space around it, nothing when it is any other word
Named(mode) == Strip(Lower(mode))

\* C26: at most one relay mode is active: initialisation makes and starts
\* the direct-mode bot or the topic-mode bot and never both, a forward_mode
\* that names neither mode selects the direct mode, and the two bots never
\* run together.
C26_OneModeOnly ==
    /\ ~(bot_instance # None /\ group_bot_instance # None)
    /\ ~(Running(bot_instance) /\ Running(group_bot_instance))
    /\ startup = "private" => bot_instance # None
    /\ startup = "group" => group_bot_instance # None
    /\ Named(plugin_config.forward_mode) # <<"group">>
           => startup # "group" /\ group_bot_instance = None

C26_Witness ==
    /\ Named(plugin_config.forward_mode) = <<"topic">>
    /\ startup = "done"
    /\ Running(bot_instance)
    /\ group_bot_instance = None

(***************************************************************************)
(* Properties of the handlers under failures.                              *)
(***************************************************************************)
\* a call of the last update that the platform refused
FailedCalls == {i \in DOMAIN ev.calls : ~ev.calls[i].ok}

WellFormedRecord(item) == JsonKind(item) = "object" /\ "user_id" \in DOMAIN item

\* a list of one item that is itself a list stands for that item
InnerArray(doc) ==
    IF JsonKind(doc) = "list" /\ Len(doc.items) = 1 /\ JsonKind(doc.items[1]) = "list"
    THEN doc.items[1]
    ELSE doc

\* the well-formed records of a document, in their order: none for a
\* missing or unreadable file and for a value that is no list
Recognisable(file) ==
    IF file = None THEN <<>>
    ELSE IF JsonKind(InnerArray(Val(file))) # "list" THEN <<>>
    ELSE LET kept == SelectSeq(InnerArray(Val(file)).items, WellFormedRecord)
         IN  [i \in DOMAIN kept |->
                 Entry(kept[i].user_id,
                       IF "name" \in DOMAIN kept[i] THEN kept[i].name ELSE <<>>)]

\* a step that loads the file: is_blocked is called with nothing cached
Loads == blocklist_data_cache = None /\ last_op'.op = "is_blocked"

\* C29: the load of the blocklist file leaves in the cache every well-formed
\* record of the file, in order, and nothing else: nothing for an unreadable
\* file or a value that is no list, the inner array for a nested array of one
C29_LoadKeepsRecognisable ==
    [][Loads => /\ blocklist_data_cache' # None
                /\ Val(blocklist_data_cache') = Recognisable(blocklist_file)]_vars

\* C30: a process that stops during a save leaves the file as it was or
\* holding the complete list the save was writing
C30_SaveAtomic ==
    [][/\ last_op'.op = "crash_add"
          => blocklist_file' \in {blocklist_file,
                                  AddToBlocklist(Cfg, last_op'.user_id, last_op'.name,
                                                 "ok").st.file}
       /\ last_op'.op = "crash_remove"
          => blocklist_file' \in {blocklist_file,
                                  RemoveFromBlocklist(Cfg, last_op'.user_id, "ok").st.file}]_vars

(***************************************************************************)
(* Properties of the interleaved presses.                                  *)
(***************************************************************************)
\* the ids the blocklist file holds
Persisted == IdsOf(ParseFile(blocklist_file))

\* the contact of the block_user payload of a query
BlockedBy(q) == IntOf(AfterFirstColon(q.data))

\* two handlers are suspended in their first query.answer(), for the block
\* buttons of two contacts neither of whom is blocked
Racing ==
    /\ Len(pending) = 2
    /\ \A i \in 1..2 : pending[i].handler = "callback"
    /\ BlockedBy(pending[1].q) # BlockedBy(pending[2].q)
    /\ \A i \in 1..2 : ~IsBlocked(Cfg, BlockedBy(pending[i].q))

\* the configuration when the handler of q has gone on from s to its end,
\* its calls accepted and its write done
Resumed(q, s) ==
    IF forward_mode = "private" THEN BotFinish(q, s, Accepted, "ok").cfg
    ELSE CommonFinish(q, s, Accepted, "ok").cfg

\* C31 as stated: when two block presses for different contacts are in
\* flight, there is an order of going on after which only one of the two
\* contacts is in the blocklist
C31_AsStated ==
    Racing => \E first \in 1..2 :
                  \E s \in {Resumed(pending[3 - first].q, Resumed(pending[first].q, Cfg))} :
                      \E i \in 1..2 : ~IsBlocked(s, BlockedBy(pending[i].q))

\* C31: no interleaving of block presses loses a write: when a handler has
\* gone on after its first answer, every id the file held is still in it,
\* and unless the write failed the pressed contact is in the file and in
\* both caches
C31_NoLostWrite ==
    [][Len(pending') < Len(pending)
           => /\ Persisted \subseteq Persisted'
              /\ ev'.path = "blocked"
                     => /\ PressedId' \in Persisted'
                        /\ IsBlocked(Cfg, PressedId)'
                        /\ HasId(GetBlocklist(Cfg), PressedId)']_vars

\* the second of two presses that were in flight together has been handled,
\* and both contacts are in the file
C31_Witness ==
    /\ pending = <<>>
    /\ IsPress
    /\ ev.path = "blocked"
    /\ write_failures = 0
    /\ Persisted = UserIds

(***************************************************************************)
(* Properties of what add and remove persist.                              *)
(***************************************************************************)
\* the names the file holds for user_id
PersistedNames(user_id) ==
    {ParseFile(blocklist_file)[i].name :
        i \in EntriesOf(ParseFile(blocklist_file), user_id)}

\* C32: an add or a remove that returns true changes the file at its contact
\* only: the ids of the file are the ones before plus or minus that contact,
\* and every other contact has the names it had; so a contact whose add
\* failed at the write is not persisted by an operation on another contact
C32_ChangesOnlyItsContact ==
    [][last_op'.ret
           => /\ last_op'.op = "add"
                     => Persisted' = Persisted \cup {last_op'.user_id}
              /\ last_op'.op = "remove"
                     => Persisted' = Persisted \ {last_op'.user_id}
              /\ \A u \in UserIds \ {last_op'.user_id} :
                     PersistedNames(u)' = PersistedNames(u)]_vars

(***************************************************************************)
(* Properties of the two caches.                                           *)
(***************************************************************************)
\* C33: whenever both caches are filled, the set of ids is_blocked looks in
\* is the set of the ids of the entries the views list
C33_CachesAgree ==
    blocklist_cache # None /\ blocklist_data_cache # None
        => Val(blocklist_cache) = IdsOf(Val(blocklist_data_cache))

(***************************************************************************)
(* Properties of the caches under changes of the file from outside.        *)
(***************************************************************************)
\* what is_blocked and get_blocklist answer when called now
Answers ==
    [blocked |-> {u \in UserIds : IsBlocked(Cfg, u)}, blocklist |-> GetBlocklist(Cfg)]

\* a step in which the file is written from outside
WrittenOutside == blocklist_file' # blocklist_file /\ last_op' = last_op

\* a step that is a call of is_blocked or of get_blocklist
Called == last_op'.op \in {"is_blocked", "get_blocklist"}

\* C34: once the cache of the entries is filled, a write of the file from
\* outside changes no answer of is_blocked or get_blocklist, and neither
\* does a call of them; the call that follows reload() leaves in the cache
\* it fills what the file holds then
C34_StaleUntilReload ==
    [][/\ (WrittenOutside \/ Called) /\ blocklist_data_cache # None => Answers' = Answers
       /\ Called /\ last_op.op = "reload"
              => /\ GetBlocklist(Cfg)' = Val(blocklist_file').items
                 /\ last_op'.op = "is_blocked"
                        => Val(blocklist_cache') = IdsOf(Val(blocklist_file').items)]_vars

\* both caches are filled and, no write having failed, hold what the file
\* held before it was written from outside
C34_Witness ==
    /\ blocklist_data_cache # None
    /\ blocklist_cache # None
    /\ write_failures = 0
    /\ Val(blocklist_data_cache) # Val(blocklist_file).items
    /\ last_op.op = "is_blocked"

(***************************************************************************)
(* Properties of the keyboard after a block.                               *)
(***************************************************************************)
\* the calls of the last press that edit the keyboard of its message
MarkupEdits == {i \in DOMAIN ev.calls : ev.calls[i].api = "edit_reply_markup"}

\* keyboard new is keyboard old with the buttons of payload data turned
\* into the mark and every other button as it was, where it was
OnlyPressedMarked(old, new, data) ==
    /\ DOMAIN new = DOMAIN old
    /\ \A r \in DOMAIN old :
           /\ DOMAIN new[r] = DOMAIN old[r]
           /\ \A c \in DOMAIN old[r] :
                  IF old[r][c].callback_data = data
                  THEN /\ new[r][c].callback_data = <<"already_blocked">>
                       /\ new[r][c].text = <<"#blocked_mark">>
                       /\ new[r][c].url = <<>>
                  ELSE new[r][c] = old[r][c]

\* the press is one of block_user:c whose add returned true
BlockedNow == IsPress /\ ev.path = "blocked"

\* the platform accepted the toast that tells of the block
ToastShown ==
    \E i \in DOMAIN ev.calls : ev.calls[i].text = <<"#blocked">> /\ ev.calls[i].ok

\* C35 as stated: after a press that blocked, the keyboard of the message
\* has been edited, with the pressed buttons marked and the others as they
\* were, and the contact is blocked
C35_AsStated ==
    BlockedNow
        => /\ \E i \in MarkupEdits : OnlyPressedMarked(ev.markup, ev.calls[i].markup, ev.data)
           /\ IsBlocked(Cfg, PressedId)

\* C35: after a press that blocked, the contact is blocked and persisted
\* whatever the calls did; when the toast was accepted there is one edit of
\* the keyboard of the message, with the pressed buttons marked and the
\* others as they were; when the toast raised there is no edit
C35_MarkOnlyPressed ==
    BlockedNow
        => /\ IsBlocked(Cfg, PressedId)
           /\ PressedId \in Persisted
           /\ ToastShown
                  => /\ Cardinality(MarkupEdits) = 1
                     /\ \A i \in MarkupEdits :
                            /\ ev.calls[i].chat = ev.chat
                            /\ OnlyPressedMarked(ev.markup, ev.calls[i].markup, ev.data)
           /\ ~ToastShown => MarkupEdits = {}

\* a press in direct mode that blocked, the edit of the keyboard refused
C35_Witness ==
    /\ BlockedNow
    /\ forward_mode = "private"
    /\ \E i \in MarkupEdits : ~ev.calls[i].ok
    /\ IsBlocked(Cfg, PressedId)

(***************************************************************************)
(* Properties of the payloads of the views.                                *)
(***************************************************************************)
\* the buttons of keyboard markup
ButtonsOf(markup) ==
    UNION {{markup[r][c] : c \in DOMAIN markup[r]} : r \in DOMAIN markup}

\* the payloads on the buttons of the views the event has rendered
ViewButtons ==
    UNION {{b.callback_data : b \in ButtonsOf(ev.calls[i].markup)} :
               i \in ViewCallsOf(ev.calls)}

\* the operator has pressed block_list:user:<id>:page:<n>
DetailPressed ==
    /\ IsPress
    /\ IsManager(ev.from)
    /\ StartsWith(ev.data, <<"block_list", ":", "user", ":">>)
    /\ Len(Split(ev.data)) = 5
    /\ IsInt(Split(ev.data)[3]) /\ IsInt(Split(ev.data)[5])

\* payload data on a button of the detail view of contact user_id opened
\* from page `page`
ValidOnDetail(data, user_id, page) ==
    \E parts \in {Split(data)} :
        \/ data = <<"close_block_list">>
        \/ parts[1] = <<"block_list">> /\ Len(parts) = 3 /\ IntOf(parts[3]) = page
        \/ /\ parts[1] = <<"unblock_user">>
           /\ IntOf(parts[2]) = user_id /\ IntOf(parts[4]) = page

\* payload data on a button of the list view of blocklist
ValidOnList(data, blocklist) ==
    \E parts \in {Split(data)},
       total \in {(Len(blocklist) + ItemsPerPage - 1) \div ItemsPerPage} :
        \/ data = <<"close_block_list">>
        \/ /\ parts[1] = <<"block_list">> /\ Len(parts) = 3
           /\ IntOf(parts[3]) \in 0..(total - 1)
        \/ /\ parts[1] = <<"block_list">> /\ Len(parts) = 5
           /\ HasId(blocklist, IntOf(parts[3]))

\* C36: every payload on a button of a view rendered by a press matches the
\* payload grammar; on the detail view the return and unblock buttons carry
\* the contact and the page of the pressed payload; on the list view a user
\* button is of a contact in the blocklist and the previous and next buttons
\* carry a page within [0, total_pages - 1] of the blocklist as it is when
\* the view is rendered.
C36_PayloadsValid ==
    IsPress
        => \A data \in ViewButtons :
               /\ WellFormed(data)
               /\ IF DetailPressed
                  THEN ValidOnDetail(data, IntOf(Split(ev.data)[3]), IntOf(Split(ev.data)[5]))
                  ELSE ValidOnList(data, GetBlocklist(Cfg))

\* the page past the last has been asked for: the last page is shown, with
\* its user button and the button of the page before it
C36_Witness ==
    /\ IsPress
    /\ ev.data = PagePayload(2)
    /\ Len(GetBlocklist(Cfg)) = MaxShown
    /\ PagePayload(0) \in ViewButtons
    /\ UserPayload(MaxShown, 1) \in ViewButtons

\* the detail view of a contact has been opened from the second page
C36_DetailShown ==
    /\ DetailPressed
    /\ UnblockPayload(IntOf(Split(ev.data)[3]), 1) \in ViewButtons

(***************************************************************************)
(* Properties of the messages of the group that are not replies.           *)
(***************************************************************************)
\* the message of the group is outside every thread, or in a thread that no
\* contact is mapped to, or its text (message.text: a media message has a
\* caption and no text) starts with "/"
NotAReply ==
    /\ ev.kind = "group"
    /\ \/ ev.thread = 0
       \/ ev.thread \notin DOMAIN topic_user_map
       \/ ev.media = {} /\ ev.text # <<>> /\ Head(ev.text) = "/"

\* C37: in topic mode the handling of a message of the group that is outside
\* every thread, or in a thread with no mapped contact, or whose text starts
\* with "/", makes no call at all, so none to a contact and no reply in the
\* group, and changes neither the blocklist nor the topic maps.
C37_NotAReplyIgnored ==
    [][Idle /\ NotAReply'
           => /\ ev'.calls = <<>>
              /\ UNCHANGED <<blocklist_file, blocklist_data_cache, blocklist_cache,
                             write_failures, forward_mode, topic_vars>>]_vars

\* a text that starts with "/" has come in the thread of a contact and
\* nothing has been sent
C37_Witness ==
    /\ NotAReply
    /\ ev.thread \in DOMAIN topic_user_map
    /\ topic_user_map[ev.thread] # 0
    /\ ev.text = <<"/">>
    /\ ev.calls = <<>>

(***************************************************************************)
(* Properties of the relay of media.                                       *)
(***************************************************************************)
\* the send of the first payload of media in the order image, document,
\* video, audio, voice note
SendOfFirst(media) ==
    IF "photo" \in media THEN "send_photo"
    ELSE IF "document" \in media THEN "send_document"
    ELSE IF "video" \in media THEN "send_video"
    ELSE IF "audio" \in media THEN "send_audio"
    ELSE "send_voice"

MediaSendApis == {"send_photo", "send_document", "send_video", "send_audio", "send_voice"}

\* the message handled last has been forwarded: relayed from a contact to
\* the operator or to the contact's thread, or sent by the operator to the
\* contact the reply resolves to
Forwarded ==
    \/ ev.kind \in {"text", "media"} /\ ev.path = "relayed"
    \/ /\ IsResolvedReply
       /\ ResolvedTarget # 0

SendsOf(calls) == {i \in DOMAIN calls : IsSend(calls[i])}

\* C39: a forwarded message that carries media leads to exactly one send,
\* of the kind of the first payload it carries in the order image,
\* document, video, audio, voice note, whoever sends it and in whichever
\* mode; a message that carries none of the five leads to no send of media.
C39_OneSendOfFirstKind ==
    /\ Forwarded /\ ev.media # {}
           => /\ Cardinality(SendsOf(ev.calls)) = 1
              /\ \A i \in SendsOf(ev.calls) : ev.calls[i].api = SendOfFirst(ev.media)
    /\ ev.media = {}
           => \A i \in DOMAIN ev.calls : ev.calls[i].api \notin MediaSendApis

\* a document with a voice note, relayed to the thread of its contact as a
\* document
C39_Witness ==
    /\ forward_mode = "group"
    /\ ev.kind = "media"
    /\ ev.media = {"document", "voice"}
    /\ ev.path = "relayed"
    /\ \E i \in SendsOf(ev.calls) :
           ev.calls[i].api = "send_document" /\ ev.calls[i].chat = GroupChatId

\* a video with an audio, sent by the operator in direct mode to the contact
\* as a video
C39_OperatorSends ==
    /\ forward_mode = "private"
    /\ IsResolvedReply
    /\ ev.media = {"video", "audio"}
    /\ \E i \in SendsOf(ev.calls) :
           ev.calls[i].api = "send_video" /\ ev.calls[i].chat = ResolvedTarget

(***************************************************************************)
(* Properties of the deletion of the acknowledgements.                     *)
(***************************************************************************)
\* the delete calls task i has made for its acknowledgement
DeleteCalls(i) ==
    {k \in DOMAIN timers[i].calls :
        /\ timers[i].calls[k].api = "delete"
        /\ timers[i].calls[k].chat = timers[i].message.chat}

\* every acknowledgement the handler has sent has its task, which has not run
StartedAsleep ==
    /\ Len(timers') = Len(timers) + Len(Acknowledgements(ev'.calls))
    /\ \A i \in (Len(timers) + 1)..Len(timers') :
           timers'[i].at = "sleep" /\ timers'[i].calls = <<>>

\* a finished task has made one call, the delete of its acknowledgement;
\* a task that has not finished has made none
OneDeleteEach ==
    \A i \in DOMAIN timers :
        /\ timers[i].calls = <<>> <=> timers[i].at # "done"
        /\ Len(timers[i].calls) <= 1
        /\ DeleteCalls(i) = DOMAIN timers[i].calls
        /\ timers[i].logged <=> \E k \in DeleteCalls(i) : ~timers[i].calls[k].ok

\* a step in which task i makes a call starts with its delay elapsed, and
\* changes nothing but task i
OnlyWhenDue(i) ==
    timers'[i].calls # timers[i].calls
        => /\ timers[i].at = "delete"
           /\ \A j \in DOMAIN timers : j # i => timers'[j] = timers[j]
           /\ UNCHANGED <<cfg_vars, last_op, write_failures, forward_mode, topic_vars, ev,
                          pending, returned, view, life_vars>>

Deleting(n) == Len(timers) >= n /\ timers[n].calls # <<>>

\* C38: the handler that acknowledges ends with the task of its
\* acknowledgement asleep and can return at once; a task makes one delete
\* call for its acknowledgement, and only after its delay has elapsed; a
\* delete that fails is logged and changes nothing but that task; and while
\* the event loop runs every acknowledgement sent is eventually followed by
\* the delete call of its task.
C38_DeletionDetached ==
    /\ [][Idle /\ ~Idle' => StartedAsleep]_vars
    /\ [](~Idle => ENABLED ReturnToLoop)
    /\ []OneDeleteEach
    /\ [][\A i \in DOMAIN timers : OnlyWhenDue(i)]_vars
    /\ \A n \in 1..MaxAcks : (Len(timers) >= n) ~> Deleting(n)

\* the handler has returned while the task of its acknowledgement sleeps,
\* after the delete of an earlier acknowledgement has failed
C38_Witness ==
    /\ Idle
    /\ Len(timers) = 2
    /\ timers[1].at = "done" /\ timers[1].logged
    /\ timers[2].at = "sleep"

====
